---- MODULE Spec2Model ----
(***************************************************************************)
(* A model of the printserver gateway: the two print backends (CUPS and    *)
(* Brother QL over USB), printer resolution and option sanitization in     *)
(* ListPrintJobApi.on_post, the polling loop of CupsPrintSystem.print, the *)
(* cups_lock discipline and the cached list of enabled backends.           *)
(*                                                                         *)
(* Eight specifications share the module:                                  *)
(*   Spec      the request handlers (POST /print-job, GET /printers) as    *)
(*             atomic operations over a fixed set of attached printers;    *)
(*   SpecPrint one call of a backend's print, step by step against a clock *)
(*             and a job whose state the spooler changes;                  *)
(*   SpecStuck the synchronous CUPS print of a job that stays in           *)
(*             PROCESSING, with a fair scheduler and a running clock;      *)
(*   SpecConc  worker threads interleaving their calls into the CUPS       *)
(*             library and their first read of supported_systems;          *)
(*   SpecFiles one call of parse_json_request on a list of files whose     *)
(*             downloads complete in any order, or of                      *)
(*             parse_multipart_request on the file parts of a form;        *)
(*   SpecMedia the printers enumerated for any media attributes of the     *)
(*             spooler, and parse_media_size on names they declare or not; *)
(*   SpecJob   one call of PrintJobApi.on_get for a job id;                *)
(*   SpecDomains the allowlist of origins: approvals, the check of the     *)
(*             Origin header of a request, and restarts of the server.     *)
(* Text values that the code lower-cases, prefix-matches or tests          *)
(* character by character are sequences of one-character strings; all      *)
(* other text values are strings.                                          *)
(***************************************************************************)
EXTENDS Integers, Sequences, FiniteSets, TLC

VARIABLES
    \* Spec: the machine's printers and the last response
    enabled,        \* the backends whose is_supported() probe answers True
    cupsPrinters,   \* what Connection.getPrinters() returns, in dict order
    usbDevices,     \* what brother_ql's discover("pyusb") returns
    resp,           \* the last request handled and its outcome
    \* SpecPrint: one call of print
    pj,             \* the print call: its arguments, locals and position
    job,            \* the submitted job as the spooler holds it
    now,            \* the clock, in tenths of a second
    hist,           \* what has happened so far during the call
    \* SpecConc: worker threads
    pc,             \* each thread's position
    cups_lock,      \* the thread that holds cups_lock, or Unlocked
    inLib,          \* the threads executing inside the CUPS library
    cache,          \* print_systems.__dict__["supported_systems"], and the build
    cacheLock,      \* the thread that holds cached_property's lock, or Unlocked
    tl,             \* each thread's locals
    made,           \* per backend: probes run and instances constructed
    \* SpecFiles, SpecMedia, SpecJob: one call of a handler or a parser
    dl              \* the call: its arguments, locals, futures and position

vars == <<enabled, cupsPrinters, usbDevices, resp, pj, job, now, hist,
          pc, cups_lock, inLib, cache, cacheLock, tl, made, dl>>

None == "None"

\* None where the value is otherwise a sequence of characters
NoneS == <<"None">>

\* A Lock that no thread holds; threads are numbered from 1
Unlocked == 0

(***************************************************************************)
(* Text                                                                    *)
(***************************************************************************)

\* str.lower() on one character
LowerChar(c) ==
    CASE c = "B" -> "b"
      [] c = "H" -> "h"
      [] c = "L" -> "l"
      [] c = "P" -> "p"
      [] c = "Q" -> "q"
      [] OTHER -> c

\* str.lower()
Lower(s) == [i \in 1..Len(s) |-> LowerChar(s[i])]

\* str.startswith(prefix)
StartsWith(s, prefix) ==
    /\ Len(prefix) <= Len(s)
    /\ SubSeq(s, 1, Len(prefix)) = prefix

Digit == <<"0", "1", "2", "3", "4", "5", "6", "7", "8", "9">>

\* str(n) for n >= 0
RECURSIVE ToStr(_)
ToStr(n) ==
    IF n < 10 THEN Digit[n + 1]
    ELSE ToStr(n \div 10) \o Digit[(n % 10) + 1]

\* [f(x) for x in range(lo, hi + 1)]
RangeStr(lo, hi) ==
    IF lo > hi THEN <<>> ELSE [i \in 1..(hi - lo + 1) |-> ToStr(lo + i - 1)]

\* x in list
InSeq(x, s) == \E i \in 1..Len(s) : s[i] = x

\* [f(x) for x in s]
MapSeq(F(_), s) == [i \in 1..Len(s) |-> F(s[i])]

\* [x for x in s if Keep(x)]
FilterSeq(Keep(_), s) == SelectSeq(s, Keep)

\* the concatenation of the sequences of ss, in order
RECURSIVE Flatten(_)
Flatten(ss) == IF ss = <<>> THEN <<>> ELSE Head(ss) \o Flatten(Tail(ss))

\* ", ".join(map(repr, s[lo..hi])) for a list of strings, by halves
RECURSIVE JoinReprRange(_, _, _)
JoinReprRange(s, lo, hi) ==
    IF lo > hi THEN ""
    ELSE IF lo = hi THEN "'" \o s[lo] \o "'"
    ELSE LET mid == (lo + hi) \div 2
         IN  JoinReprRange(s, lo, mid) \o ", " \o JoinReprRange(s, mid + 1, hi)

JoinRepr(s) == JoinReprRange(s, 1, Len(s))

(***************************************************************************)
(* Data model                                                              *)
(***************************************************************************)

\* PrinterState
IDLE == 3
PRINTER_PROCESSING == 4
PRINTER_STOPPED == 5

\* JobState
PENDING == 3
PENDING_HELD == 4
PROCESSING == 5
STOPPED == 6
CANCELED == 7
ABORTED == 8
COMPLETED == 9
JobState == {PENDING, PENDING_HELD, PROCESSING, STOPPED, CANCELED, ABORTED, COMPLETED}

\* Sorted from most-preferred to least-preferred printer system
all_print_systems == <<"cups", "brother_ql">>

PrintOption(keyword, default_choice, choices) ==
    [keyword |-> keyword, default_choice |-> default_choice, choices |-> choices]

\* CUPS-specific options that are not printer-specific
GENERIC_OPTIONS == <<
    PrintOption("copies", "1", RangeStr(1, 100)),
    PrintOption("collate", "false", <<"true", "false">>),
    PrintOption("fit-to-page", "false", <<"true", "false">>),
    PrintOption("mirror", "false", <<"true", "false">>),
    PrintOption("landscape", "false", <<"true", "false">>),
    PrintOption("outputorder", "normal", <<"normal", "reverse">>),
    PrintOption("page-border", "none",
                <<"none", "single", "single-thick", "double", "double-thick">>),
    PrintOption("number-up", "1", <<"1", "2", "4", "6", "9", "16">>),
    PrintOption("number-up-layout", "lrtb",
                <<"lrtb", "btlr", "btrl", "lrbt", "rlbt", "rltb", "tblr", "tbrl">>),
    PrintOption("print-scaling", "none", <<"auto", "auto-fit", "fill", "fit", "none">>) >>

\* CUPS-specific options that are disallowed for security
DISALLOWED_OPTIONS ==
    {"job-priority", "job-hold-until", "job-cancel-after", "notify-lease-duration",
     "notify-events", "media", "PageSize", "PageRegion", "document-format",
     "prettyprint", "orientation-requested"}

\* SizeUnit, and a member of it; a plain str in the place of a member is
\* StrValue
SizeUnitValues == {"points", "inches", "millimeters"}
SizeUnit(value) == [type |-> "SizeUnit", value |-> value]
StrValue(value) == [type |-> "str", value |-> value]
POINTS == SizeUnit("points")
INCHES == SizeUnit("inches")
MILLIMETERS == SizeUnit("millimeters")

\* A float: finite ones are held in tenths
Num(tenths) == [t |-> "num", v |-> tenths]
NaN == [t |-> "nan", v |-> 0]
Infinity == [t |-> "inf", v |-> 0]

\* None where the value is otherwise a float
NoNum == [t |-> "none", v |-> 0]

MediaSize(name, width, height, units, full_identifier) ==
    [name |-> name, width |-> width, height |-> height, units |-> units,
     full_identifier |-> full_identifier]

\* PrinterSelector(); name "" stands as the code leaves it (falsy, not None)
PrinterSelector(name, print_system, name_prefix, model_prefix) ==
    [name |-> name, print_system |-> print_system,
     name_prefix |-> name_prefix, model_prefix |-> model_prefix]

\* bool(x) of an Optional[str] held as a sequence of characters
Truthy(x) == x # NoneS /\ x # <<>>

\* bool(x) of a dataclass instance (PrinterSelector, PrinterDetails): the
\* classes define neither __bool__ nor __len__, so every instance is true
InstanceTruthy(x) == TRUE

(***************************************************************************)
(* CupsPrintSystem.get_printers                                            *)
(***************************************************************************)

\* Convert pycups printer attributes to IPP-compatible strings. The values
\* the modelled printers report are bool, int and str.
parse_ipp_attribute(option_name, value) ==
    CASE value.t = "bool" -> IF value.v THEN "true" ELSE "false"
      [] value.t = "int" -> ToStr(value.v)
      [] value.t = "str" -> value.v

\* Parse IPP options: one entry of job-creation-attributes-supported, giving
\* <<>> when the option is skipped and <<PrintOption>> otherwise
ipp_option(attr) ==
    LET default_choice0 ==
            IF attr.default.t # "absent"
            THEN parse_ipp_attribute(attr.name, attr.default) ELSE None
        sup == attr.supported
        isRange == sup.kind = "range"
        choices ==
            IF isRange
            THEN LET max_value == IF sup.lo + 99 < sup.hi THEN sup.lo + 99 ELSE sup.hi
                 IN  RangeStr(sup.lo, max_value)
            ELSE IF sup.kind = "list"
            THEN LET P(x) == parse_ipp_attribute(attr.name, x) IN MapSeq(P, sup.items)
            ELSE <<>>
        default_choice == IF InSeq(default_choice0, choices) THEN default_choice0 ELSE None
    IN  IF attr.col THEN <<>>                                 \* key.endswith("-col")
        ELSE IF sup.kind \notin {"range", "list", "absent"} THEN <<>>   \* continue
        ELSE IF choices = <<>> THEN <<>>                      \* missing a spec
        ELSE <<PrintOption(attr.name, default_choice, choices)>>

ipp_options(printer) == Flatten(MapSeq(ipp_option, printer.ipp))

\* Parse PPD options: one option of a PPD option group
ppd_option(option) ==
    LET default_choice == IF option.defchoice # "" THEN option.defchoice ELSE None
        choices0 == option.choices
        choices == IF default_choice # None /\ ~InSeq(default_choice, choices0)
                   THEN <<default_choice>> \o choices0 ELSE choices0
    IN  PrintOption(option.keyword, default_choice, choices)

\* getPPD() raising IPPError or PPD() raising RuntimeError leave no PPD options
ppd_options(printer) ==
    IF printer.ppd.kind = "ppd" THEN MapSeq(ppd_option, printer.ppd.options) ELSE <<>>

\* Remove duplicates and disallowed options, while retaining the same
\* ordering. Only keep the first occurrence of each option.
RECURSIVE dedupe(_, _)
dedupe(supported_options, exclude) ==
    IF supported_options = <<>> THEN <<>>
    ELSE LET option == Head(supported_options)
         IN  IF option.keyword \notin exclude
             THEN <<option>> \o dedupe(Tail(supported_options), exclude \cup {option.keyword})
             ELSE dedupe(Tail(supported_options), exclude)

\* The options kept when no keyword is excluded at the start
cups_supported_options_all(printer) ==
    dedupe(ipp_options(printer) \o ppd_options(printer) \o GENERIC_OPTIONS, {})

cups_supported_options(printer) ==
    dedupe(ipp_options(printer) \o ppd_options(printer) \o GENERIC_OPTIONS,
           DISALLOWED_OPTIONS)

\* float(text) of a numeral the dimensions pattern has let through
float(numeral) == Num(numeral.tenths)

\* re.match(r"^[0-9]*[.]?[0-9]+x[0-9]*[.]?[0-9]+$", dimensions)
dimensions_match(dimensions) ==
    /\ dimensions.width.decimal /\ dimensions.height.decimal /\ dimensions.sep = "x"
    /\ dimensions.suffix \in {"", "in", "IN", "mm", "MM"}

\* The units that the end of the dimensions names, after dimensions.lower()
media_units(dimensions) ==
    IF dimensions.suffix \in {"in", "IN"} THEN INCHES
    ELSE IF dimensions.suffix \in {"mm", "MM"} THEN MILLIMETERS
    ELSE POINTS

\* Parse supported media sizes: the loop over media-supported from entry i
\* on, with the sizes found so far and the default found so far. An
\* identifier is held as its parts between underscores, the last of them
\* as [width, sep, height, suffix].
\* The text of an identifier of three parts
IdentifierText(identifier) ==
    identifier[1] \o "_" \o identifier[2] \o "_" \o identifier[3].width.text
    \o identifier[3].sep \o identifier[3].height.text \o identifier[3].suffix

RECURSIVE cups_media_from(_, _, _, _, _)
cups_media_from(media_identifiers, i, default_media_identifier, media_sizes, default_media_size) ==
    IF i > Len(media_identifiers)
    THEN [media_sizes |-> media_sizes, default_media_size |-> default_media_size]
    ELSE
    LET identifier == media_identifiers[i]
        Skip == cups_media_from(media_identifiers, i + 1, default_media_identifier,
                                media_sizes, default_media_size)
    IN  IF Len(identifier) # 3 THEN Skip          \* not world_size_dimensions
        ELSE IF ~dimensions_match(identifier[3]) THEN Skip
        ELSE
        LET size_name == identifier[2]
            dimensions == identifier[3]
            default == IF <<identifier>> = default_media_identifier
                       THEN size_name ELSE default_media_size
            size_names == {}        \* set() that the loop never adds to
            known == size_name \in size_names            \* Duplicate size
            size == MediaSize(size_name, float(dimensions.width), float(dimensions.height),
                              media_units(dimensions), IdentifierText(identifier))
        IN  cups_media_from(media_identifiers, i + 1, default_media_identifier,
                            IF known THEN media_sizes ELSE Append(media_sizes, size),
                            default)

\* A run of characters that is a decimal numeral, and one that is not
Numeral(text, tenths) == [decimal |-> TRUE, text |-> text, tenths |-> tenths]
NotNumeral(text) == [decimal |-> FALSE, text |-> text, tenths |-> 0]
Dimensions(width, height, suffix) ==
    [width |-> width, sep |-> "x", height |-> height, suffix |-> suffix]

\* "na_letter_8.5x11in", the identifier of the fallback size
LetterIdentifier ==
    <<"na", "letter", Dimensions(Numeral("8.5", 85), Numeral("11", 110), "in")>>

LegalIdentifier ==
    <<"na", "legal", Dimensions(Numeral("8.5", 85), Numeral("14", 140), "in")>>

\* Default media size and supported media sizes of a printer, with the
\* fallbacks for no valid size and for no default
cups_media(printer) ==
    LET parsed == cups_media_from(printer.media_supported, 1, printer.media_default, <<>>, "")
        media_sizes ==
            IF Len(parsed.media_sizes) = 0
            THEN <<MediaSize("letter", Num(85), Num(110), INCHES, "na_letter_8.5x11in")>>
            ELSE parsed.media_sizes
        default_media_size ==
            IF parsed.default_media_size = ""      \* None or an empty size name
            THEN media_sizes[1].name ELSE parsed.default_media_size
    IN  [media_sizes |-> media_sizes, default_media_size |-> default_media_size]

\* The availability test at the head of the loop over getPrinters()
cups_available(printer) ==
    /\ ~InSeq("offline-report", printer.reasons)
    /\ \/ printer.state \in {IDLE, PRINTER_PROCESSING}
       \/ printer.state = PRINTER_STOPPED /\ InSeq("paused", printer.reasons)

\* The selector tests of the loop over getPrinters()
cups_selected(printer_selector, printer) ==
    /\ ~(Truthy(printer_selector.name)
         /\ Lower(printer.info) # Lower(printer_selector.name))
    /\ ~(Truthy(printer_selector.model_prefix)
         /\ ~StartsWith(Lower(printer.make_model), Lower(printer_selector.model_prefix)))
    /\ ~(Truthy(printer_selector.name_prefix)
         /\ ~StartsWith(Lower(printer.info), Lower(printer_selector.name_prefix)))

cups_details(printer) ==
    [name |-> printer.info,
     model |-> printer.make_model,
     identifier |-> printer.printer_name,
     printer_state |-> printer.state,
     state_reasons |-> printer.reasons,
     print_system |-> "cups",
     default_media_size |-> <<cups_media(printer).default_media_size>>,
     media_sizes |-> cups_media(printer).media_sizes,
     supported_options |-> cups_supported_options(printer)]

\* Return the list of available CUPS printers that match the given selector
cups_get_printers(printers, printer_selector) ==
    LET Keep(printer) == cups_available(printer) /\ cups_selected(printer_selector, printer)
    IN  MapSeq(cups_details, FilterSeq(Keep, printers))

(***************************************************************************)
(* BrotherQLPrintSystem.get_printers                                       *)
(***************************************************************************)

\* Replace _ with / due to a bug in how brother_ql formats the printer URL
fix_brother_url(printer_url) ==
    IF printer_url.sep = "_" THEN [printer_url EXCEPT !.sep = "/"] ELSE printer_url

brother_selected(printer_selector, printer) ==
    /\ printer.instance # <<>>
    /\ StartsWith(Lower(printer.instance[1].product), Lower(printer_selector.model_prefix))
    /\ StartsWith(Lower(printer.instance[1].manufacturer), Lower(printer_selector.name_prefix))

brother_details(printer) ==
    LET instance == printer.instance[1]
    IN  [name |-> instance.manufacturer \o <<" ">> \o instance.product
                  \o <<" ", "(">> \o instance.serial_number \o <<")">>,
         model |-> instance.product,
         identifier |-> fix_brother_url(printer.identifier),
         printer_state |-> IDLE,
         state_reasons |-> <<>>,
         print_system |-> "brother_ql",
         default_media_size |-> <<>>,          \* the constructor is not given one
         media_sizes |-> <<MediaSize("103x164", Num(1030), Num(1640), StrValue("mm"),
                                     "custom_103x164mm_103x164mm")>>,
         supported_options |-> <<>>]

brother_get_printers(printers, printer_selector) ==
    LET Keep(printer) == brother_selected(printer_selector, printer)
    IN  MapSeq(brother_details, FilterSeq(Keep, printers))

\* system.get_printers(selector) of the backend named system
get_printers(system, printer_selector) ==
    IF system = "cups" THEN cups_get_printers(cupsPrinters, printer_selector)
    ELSE brother_get_printers(usbDevices, printer_selector)

\* PrintSystemProvider.supported_systems, given the probes' answers
supported_systems(probe) ==
    LET Keep(system) == system \in probe IN FilterSeq(Keep, all_print_systems)

(***************************************************************************)
(* Requests                                                                *)
(***************************************************************************)

\* A field the request does not carry
Absent == "absent"
AbsentS == <<"absent">>

Ok(value) == [ok |-> TRUE, value |-> value, status |-> 200, title |-> ""]
HTTPBadRequest(title) == [ok |-> FALSE, value |-> <<>>, status |-> 400, title |-> title]

system_names == all_print_systems

\* PrinterSelector.validate_print_system: called by parse_multipart_request
\* and not part of base.py as given; it enforces "print_system, if set,
\* must be one of the registered backend names"
validate_print_system(print_system) == InSeq(print_system, system_names)

\* PrinterSelector.parse on a dict of strings. printSystem is read with
\* get(), not pop(), so a dict that carries it is still non-empty when the
\* leftover fields are rejected.
PrinterSelector_parse(selector) ==
    LET name == IF selector.name # AbsentS /\ Truthy(selector.name)
                THEN selector.name ELSE NoneS
        name_prefix == IF selector.namePrefix # AbsentS THEN selector.namePrefix ELSE <<>>
        model_prefix == IF selector.modelPrefix # AbsentS THEN selector.modelPrefix ELSE <<>>
        print_system == IF selector.printSystem \notin {Absent, ""}
                        THEN selector.printSystem ELSE None
        leftover == selector.printSystem # Absent \/ selector.unknown
    IN  IF leftover THEN HTTPBadRequest("Unknown printerSelector field")
        ELSE IF print_system # None /\ ~InSeq(print_system, system_names)
        THEN HTTPBadRequest("Invalid value for printerSelector.printSystem")
        ELSE Ok(PrinterSelector(name, print_system, name_prefix, model_prefix))

\* d[key] = value on a dict held as a sequence of <<key, value>> in
\* insertion order
DictSet(d, key, value) ==
    IF \E i \in 1..Len(d) : d[i][1] = key
    THEN [i \in 1..Len(d) |-> IF d[i][1] = key THEN <<key, value>> ELSE d[i]]
    ELSE Append(d, <<key, value>>)

RECURSIVE DictOf(_, _)
DictOf(d, pairs) ==
    IF pairs = <<>> THEN d
    ELSE DictOf(DictSet(d, Head(pairs)[1], Head(pairs)[2]), Tail(pairs))

DictHas(d, key) == \E i \in 1..Len(d) : d[i][1] = key
DictGet(d, key) == d[CHOOSE i \in 1..Len(d) : d[i][1] = key][2]

\* A width or height the request does not carry, and one that is text which
\* is no number
AbsentNum == [t |-> "absent", v |-> 0]
TextNum == [t |-> "text", v |-> 0]

\* The Optional[float] of a width or height that is absent or a number
OptionalFloat(x) == IF x.t = "absent" THEN NoNum ELSE x

\* The printerSelector[...], options[...] and media[size][...] parts of
\* parse_multipart_request: unknown parts are skipped, options with an empty
\* key or value are skipped, width and height go through float()
parse_multipart_request(req) ==
    LET sel == req.selector
        KeepOption(kv) == kv[1] # "" /\ kv[2] # ""
        options == DictOf(<<>>, FilterSeq(KeepOption, req.options))
    IN  IF req.media.width.t = "text"
        THEN HTTPBadRequest("Invalid value for media[size][width]")
        ELSE IF req.media.height.t = "text"
        THEN HTTPBadRequest("Invalid value for media[size][height]")
        ELSE IF sel.printSystem # Absent /\ ~validate_print_system(sel.printSystem)
        THEN HTTPBadRequest("Invalid value for printerSelector.printSystem")
        ELSE Ok([options |-> options,
                 is_async |-> req.is_async,
                 media_size_name |-> IF req.media.name = Absent THEN None ELSE req.media.name,
                 media_width |-> OptionalFloat(req.media.width),
                 media_height |-> OptionalFloat(req.media.height),
                 media_units |-> IF req.media.units = Absent THEN None ELSE req.media.units,
                 printer_selector |->
                     PrinterSelector(
                         IF sel.name # AbsentS THEN sel.name ELSE NoneS,
                         IF sel.printSystem # Absent THEN sel.printSystem ELSE None,
                         IF sel.namePrefix # AbsentS THEN sel.namePrefix ELSE <<>>,
                         IF sel.modelPrefix # AbsentS THEN sel.modelPrefix ELSE <<>>)])

\* The options, media and printerSelector fields of parse_json_request
parse_json_request(req) ==
    LET parsed == PrinterSelector_parse(req.selector)
    IN  IF req.media.width.t = "text"
        THEN HTTPBadRequest("Invalid value for media[size][width]")
        ELSE IF req.media.height.t = "text"
        THEN HTTPBadRequest("Invalid value for media[size][height]")
        ELSE IF ~parsed.ok THEN parsed
        ELSE Ok([options |-> DictOf(<<>>, req.options),
                 is_async |-> req.is_async,
                 media_size_name |-> IF req.media.name \in {Absent, ""}
                                     THEN None ELSE req.media.name,
                 media_width |-> OptionalFloat(req.media.width),
                 media_height |-> OptionalFloat(req.media.height),
                 media_units |-> IF req.media.units \in {Absent, ""}
                                 THEN None ELSE req.media.units,
                 printer_selector |-> parsed.value])

\* re.match(r"^[!-~]+$", option_name): printable ASCII without spaces
ValidOptionName(option_name) == option_name \notin {"", "sp ace"}

\* re.match(r"^[ !-~]+$", value): printable ASCII
ValidOptionValue(value) == value # ""

\* validate_options on a dict of strings of moderate length
validate_options(options) ==
    \A i \in 1..Len(options) :
        ValidOptionName(options[i][1]) /\ ValidOptionValue(options[i][2])

(***************************************************************************)
(* Option sanitization                                                     *)
(***************************************************************************)

\* {x.keyword: x.choices for x in printer.supported_options}
supported_choices(printer) ==
    LET Pair(x) == <<x.keyword, x.choices>>
    IN  DictOf(<<>>, MapSeq(Pair, printer.supported_options))

remove_unsupported_options_keyonly(printer, options) ==
    LET Keep(kv) == DictHas(supported_choices(printer), kv[1])
    IN  FilterSeq(Keep, options)

remove_unsupported_options(printer, options) ==
    LET Keep(kv) ==
            /\ DictHas(supported_choices(printer), kv[1])
            /\ InSeq(kv[2], DictGet(supported_choices(printer), kv[1]))
    IN  FilterSeq(Keep, options)

WarnOption(key) == "Printer does not support option: '" \o key \o "'"

WarnChoice(key, value, choices) ==
    "Printer does not support option " \o key \o "='" \o value \o "''. "
    \o "Supported choices are: " \o JoinRepr(choices)

\* get_warnings: one warning, or none, per user-supplied option
option_warning(printer, kv) ==
    IF ~DictHas(supported_choices(printer), kv[1])
    THEN <<WarnOption(kv[1])>>
    ELSE IF ~InSeq(kv[2], DictGet(supported_choices(printer), kv[1]))
    THEN <<WarnChoice(kv[1], kv[2], DictGet(supported_choices(printer), kv[1]))>>
    ELSE <<>>

get_warnings(printer, user_supplied_options) ==
    LET W(kv) == option_warning(printer, kv)
    IN  Flatten(MapSeq(W, user_supplied_options))

(***************************************************************************)
(* Media size                                                              *)
(***************************************************************************)

\* bool(x) of an Optional[float]: None and 0 are false, nan is true
NumTruthy(x) == ~(x.t = "none" \/ (x.t = "num" /\ x.v = 0))

\* name.lower() on the names of the model
LowerName(name) == IF name \in {"Custom", "CUSTOM"} THEN "custom" ELSE name

\* "_" in name, and re.match(r"^[!-~]+$", name), on the names of the model
HasUnderscore(name) == name \in {"na_letter", "_"}
PrintableName(name) == name \notin {"", "let ter"}

\* str(x) of a finite float held in tenths: 8.5 gives "8.5", 11.0 "11.0"
FloatStr(x) == ToStr(x.v \div 10) \o "." \o ToStr(x.v % 10)

\* format(x, "g") of a finite float held in tenths: 8.5 gives "8.5", 11.0 "11"
GStr(x) == IF x.v % 10 = 0 THEN ToStr(x.v \div 10) ELSE FloatStr(x)

MediaOk(size, warning) == [kind |-> "ok", size |-> size, warning |-> warning]
ValueError(message) == [kind |-> "ValueError", size |-> <<>>, warning |-> message]
AttributeError(message) == [kind |-> "AttributeError", size |-> <<>>, warning |-> message]

MismatchWarning(name, size_spec, width, height, units_enum) ==
    "Media size " \o name \o " doesn't match the specification for printer. Expected "
    \o GStr(size_spec.width) \o "x" \o GStr(size_spec.height) \o " "
    \o size_spec.units.value \o ", but got "
    \o GStr(width) \o "x" \o GStr(height) \o " " \o units_enum.value

UnknownNameWarning_none(name) == None

UnknownNameWarning(name) ==
    "Printer does not know how to interpret media size " \o name
    \o " without media[size][width]/media[size][height]"

\* The IPP suffix of the units of a custom size
ipp_units(units_enum) ==
    IF units_enum = POINTS THEN ""
    ELSE IF units_enum = MILLIMETERS THEN "mm"
    ELSE "in"

\* parse_media_size: size is <<>> for None and <<MediaSize>> otherwise;
\* warning is None or the text of the warning
parse_media_size(printer, name0, width, height, units) ==
    LET name == IF name0 = None \/ name0 = "" \/ LowerName(name0) = "custom"
                THEN None ELSE name0
        reason == IF HasUnderscore(name) THEN "Underscores are not allowed."
                  ELSE IF Len(name) > 255 THEN "Length is too long."
                  ELSE IF ~PrintableName(name)
                  THEN "Only printable ascii characters are allowed."
                  ELSE None
        units_enum == IF units = None THEN <<>> ELSE <<SizeUnit(units)>>
        matches == {k \in 1..Len(printer.media_sizes) : printer.media_sizes[k].name = name}
    IN  IF name # None /\ reason # None
        THEN ValueError("Invalid value for media[size][name]. " \o reason)
        ELSE IF name = None /\ ~NumTruthy(width) /\ ~NumTruthy(height)
                /\ units \in {None, ""}
        THEN MediaOk(<<>>, None)
        ELSE IF (width.t = "none") # (height.t = "none")
        THEN ValueError("Must specify both media[size][width] and media[size][height], or neither")
        ELSE IF (width.t = "none") # (units = None)
        THEN ValueError("media[size][units] should be specified along with media[size][width]/media[size][height]")
        ELSE IF /\ width.t # "none" /\ height.t # "none"
                /\ \/ width.t # "num" \/ width.v <= 0
                   \/ height.t # "num" \/ height.v <= 0
        THEN ValueError("Invalid value for media[size][width]/media[size][height]")
        ELSE IF units # None /\ units \notin SizeUnitValues
        THEN ValueError("Invalid value for media[size][units]")
        ELSE IF name # None /\ matches # {}
        THEN LET size_spec == printer.media_sizes[CHOOSE k \in matches : \A j \in matches : k <= j]
                 given == width.t # "none" /\ height.t # "none" /\ units_enum # <<>>
                 differs == \/ width # size_spec.width \/ height # size_spec.height
                            \/ units_enum[1] # size_spec.units
             IN  IF given /\ differs
                 THEN IF size_spec.units.type # "SizeUnit"
                      THEN AttributeError("'str' object has no attribute 'value'")
                      ELSE MediaOk(<<size_spec>>,
                                   MismatchWarning(name, size_spec, width, height,
                                                   units_enum[1]))
                 ELSE MediaOk(<<size_spec>>, None)
        ELSE IF name # None /\ width.t = "none"
        THEN MediaOk(<<>>, UnknownNameWarning(name))
        ELSE IF width.t = "none" \/ height.t = "none" \/ units_enum = <<>>
        THEN MediaOk(<<>>, None)
        ELSE LET dims == FloatStr(width) \o "x" \o FloatStr(height) \o ipp_units(units_enum[1])
                 name_ == IF name = None THEN dims ELSE name
             IN  MediaOk(<<MediaSize(name_, width, height, units_enum[1],
                                     "custom_" \o name_ \o "_" \o dims)>>, None)

(***************************************************************************)
(* Printer resolution                                                      *)
(***************************************************************************)

\* The loop over supported_systems in on_post, from backend number i on:
\* the get_printers calls made, and the printer found, if any
RECURSIVE resolve_from(_, _, _)
resolve_from(systems, i, printer_selector) ==
    IF i > Len(systems) THEN [calls |-> <<>>, printer |-> <<>>, print_system |-> None]
    ELSE LET found == get_printers(systems[i], printer_selector)
             call == [system |-> systems[i], result |-> found]
         IN  IF found # <<>> /\ InstanceTruthy(found[1])
             THEN [calls |-> <<call>>, printer |-> <<found[1]>>, print_system |-> systems[i]]
             ELSE LET rest == resolve_from(systems, i + 1, printer_selector)
                  IN  [rest EXCEPT !.calls = <<call>> \o rest.calls]

\* The same loop with its two break statements missing
RECURSIVE resolve_nobreak_from(_, _, _)
resolve_nobreak_from(systems, i, printer_selector) ==
    IF i > Len(systems) THEN [calls |-> <<>>, printer |-> <<>>, print_system |-> None]
    ELSE LET found == get_printers(systems[i], printer_selector)
             call == [system |-> systems[i], result |-> found]
             rest == resolve_nobreak_from(systems, i + 1, printer_selector)
         IN  IF rest.printer = <<>> /\ found # <<>>
             THEN [calls |-> <<call>> \o rest.calls,
                   printer |-> <<found[Len(found)]>>, print_system |-> systems[i]]
             ELSE [rest EXCEPT !.calls = <<call>> \o rest.calls]

resolve_nobreak(systems, printer_selector) ==
    resolve_nobreak_from(systems, 1, printer_selector)

resolve(systems, printer_selector) == resolve_from(systems, 1, printer_selector)

(***************************************************************************)
(* The handlers                                                            *)
(***************************************************************************)

NoResponse ==
    [op |-> "none", req |-> <<>>, stage |-> "none", status |-> 0, title |-> "",
     selector |-> <<>>, calls |-> <<>>, printer |-> <<>>, print_system |-> None,
     printers |-> <<>>, options |-> <<>>, option_warnings |-> <<>>,
     warnings |-> <<>>, print_options |-> <<>>, printed |-> FALSE,
     media_size |-> <<>>, size_warning |-> None]

Rejected(op, req, error) ==
    [NoResponse EXCEPT !.op = op, !.req = <<req>>, !.stage = "parse",
                       !.status = error.status, !.title = error.title]

\* The title of the rejection when no printer was resolved
no_printer_title(printer_selector) ==
    IF InstanceTruthy(printer_selector)
    THEN "No matching printer is attached"
    ELSE "No printer is attached"

\* The test of the options at the head of CupsPrintSystem.print
cups_print_permits(options) ==
    \A i \in 1..Len(options) : options[i][1] \notin DISALLOWED_OPTIONS

\* ListPrintJobApi.on_post up to and including the call of the backend's
\* print, whose own steps past the test of the options are those of
\* SpecPrint
on_post(req) ==
    LET parsed == IF req.content_type = "application/json" THEN parse_json_request(req)
                  ELSE IF req.content_type = "multipart/form-data"
                  THEN parse_multipart_request(req)
                  ELSE HTTPBadRequest("Unsupported content type")
    IN  IF ~parsed.ok THEN Rejected("post", req, parsed)
        ELSE
        LET data == parsed.value
            found == resolve(supported_systems(enabled), data.printer_selector)
            seen == [NoResponse EXCEPT !.op = "post", !.req = <<req>>,
                                       !.selector = <<data.printer_selector>>,
                                       !.options = data.options]
        IN  IF ~validate_options(data.options)
            THEN [seen EXCEPT !.stage = "validate_options", !.status = 400,
                              !.title = "Invalid 'options' parameter"]
            ELSE IF found.printer = <<>> \/ found.print_system = None
            THEN [seen EXCEPT !.stage = "resolve", !.status = 400, !.calls = found.calls,
                              !.title = no_printer_title(data.printer_selector)]
            ELSE
            LET printer == found.printer[1]
                media == parse_media_size(printer, data.media_size_name, data.media_width,
                                          data.media_height, data.media_units)
                resolved == [seen EXCEPT !.calls = found.calls,
                                         !.printer = found.printer,
                                         !.print_system = found.print_system]
                option_warnings == get_warnings(printer, data.options)
                warnings == IF media.warning # None
                            THEN Append(option_warnings, media.warning)
                            ELSE option_warnings
                print_options == remove_unsupported_options(printer, data.options)
                permitted == found.print_system # "cups" \/ cups_print_permits(print_options)
            IN  IF media.kind = "ValueError"
                THEN [resolved EXCEPT !.stage = "parse_media_size", !.status = 400,
                                      !.title = media.warning]
                ELSE IF media.kind # "ok"
                THEN [resolved EXCEPT !.stage = "parse_media_size", !.status = 500,
                                      !.title = media.warning]
                ELSE [resolved EXCEPT !.stage = "print",
                                      !.status = IF permitted THEN 201 ELSE 400,
                                      !.title = IF permitted THEN ""
                                                ELSE "Option is not permitted",
                                      !.option_warnings = option_warnings,
                                      !.warnings = warnings,
                                      !.media_size = media.size,
                                      !.size_warning = media.warning,
                                      !.print_options = print_options,
                                      !.printed = TRUE]

\* ListPrintersApi.on_get: request.params is the selector
on_get_printers(req) ==
    LET parsed == PrinterSelector_parse(req.selector)
    IN  IF ~parsed.ok THEN Rejected("list", req, parsed)
        ELSE
        LET Call(system) == [system |-> system,
                             result |-> get_printers(system, parsed.value)]
            calls == MapSeq(Call, supported_systems(enabled))
            Result(call) == call.result
        IN  [NoResponse EXCEPT !.op = "list", !.req = <<req>>, !.status = 200,
                               !.stage = "list",
                               !.selector = <<parsed.value>>,
                               !.calls = calls,
                               !.printers = Flatten(MapSeq(Result, calls))]

(***************************************************************************)
(* The machines and requests of the model                                  *)
(***************************************************************************)

MaxFields == 2     \* selector fields a request sets
MaxOptions == 2    \* options[...] entries a request carries

Str_Hp == <<"H", "p">>
Str_hp == <<"h", "p">>
Str_HL == <<"H", "L">>
Str_Bro == <<"B", "r", "o">>
Str_QL == <<"Q", "L">>

IppValue(v) == [t |-> "str", v |-> v]

\* An idle laser printer with IPP and PPD options
PrinterLaser ==
    [printer_name |-> "laser", info |-> Str_Hp, make_model |-> Str_HL,
     state |-> IDLE, reasons |-> <<"none">>,
     media_supported |-> <<LetterIdentifier, LegalIdentifier>>,
     media_default |-> <<LegalIdentifier>>,
     ipp |-> << [name |-> "sides", col |-> FALSE,
                 default |-> IppValue("one-sided"),
                 supported |-> [kind |-> "list",
                                items |-> <<IppValue("one-sided"), IppValue("two-sided")>>]],
                [name |-> "media", col |-> FALSE, default |-> [t |-> "absent"],
                 supported |-> [kind |-> "list", items |-> <<IppValue("na_letter_8.5x11in")>>]],
                [name |-> "copies", col |-> FALSE, default |-> [t |-> "int", v |-> 1],
                 supported |-> [kind |-> "range", lo |-> 1, hi |-> 9999]],
                [name |-> "media-col", col |-> TRUE, default |-> [t |-> "absent"],
                 supported |-> [kind |-> "absent"]],
                [name |-> "job-name", col |-> FALSE, default |-> [t |-> "absent"],
                 supported |-> [kind |-> "other"]] >>,
     ppd |-> [kind |-> "ppd",
              options |-> << [keyword |-> "Duplex", defchoice |-> "None",
                              choices |-> <<"None", "DuplexNoTumble">>],
                             [keyword |-> "PageSize", defchoice |-> "Letter",
                              choices |-> <<"Letter", "A4">>],
                             [keyword |-> "Resolution", defchoice |-> "",
                              choices |-> <<>>] >>]]

\* A label printer that CUPS has paused, without a PPD
PrinterPaused ==
    [printer_name |-> "label", info |-> <<"h", "p", "x">>, make_model |-> Str_QL,
     state |-> PRINTER_STOPPED, reasons |-> <<"paused">>,
     media_supported |-> <<>>, media_default |-> <<>>,
     ipp |-> <<>>, ppd |-> [kind |-> "none"]]

PrinterOffline ==
    [PrinterLaser EXCEPT !.printer_name = "gone", !.reasons = <<"offline-report">>]

PrinterStopped ==
    [PrinterPaused EXCEPT !.printer_name = "jam", !.reasons = <<"media-jam">>]

CupsWorlds ==
    {<<>>, <<PrinterLaser>>, <<PrinterPaused, PrinterLaser>>,
     <<PrinterOffline, PrinterStopped>>, <<PrinterOffline, PrinterPaused>>}

UsbLabelPrinter ==
    [instance |-> << [manufacturer |-> Str_Bro, product |-> Str_QL,
                      serial_number |-> <<"7">>] >>,
     identifier |-> [scheme |-> "usb://0x04f9:0x2042", sep |-> "_", serial |-> "7"]]

UsbUnreadable ==
    [instance |-> <<>>,
     identifier |-> [scheme |-> "usb://0x04f9:0x2043", sep |-> "_", serial |-> ""]]

UsbWorlds == {<<>>, <<UsbLabelPrinter>>, <<UsbUnreadable, UsbLabelPrinter>>}

RawSelectors ==
    [name : {AbsentS, <<>>, <<"H", "P">>},
     namePrefix : {AbsentS, <<"h">>, <<"B", "r", "o", " ", "Q">>},
     modelPrefix : {AbsentS, <<"q">>},
     printSystem : {Absent, "cups", "brother_ql", "lpd"},
     unknown : BOOLEAN]

FieldsSet(selector) ==
    (IF selector.name # AbsentS THEN 1 ELSE 0)
    + (IF selector.namePrefix # AbsentS THEN 1 ELSE 0)
    + (IF selector.modelPrefix # AbsentS THEN 1 ELSE 0)
    + (IF selector.printSystem # Absent THEN 1 ELSE 0)
    + (IF selector.unknown THEN 1 ELSE 0)

SelectorInputs == {selector \in RawSelectors : FieldsSet(selector) <= MaxFields}

EmptyRawSelector ==
    [name |-> AbsentS, namePrefix |-> AbsentS, modelPrefix |-> AbsentS,
     printSystem |-> Absent, unknown |-> FALSE]

OptionPairs == {"copies", "sides", "bogus-key", "media"} \X {"3", "x"}
                   \cup {<<"sp ace", "3">>, <<"copies", "">>}

SeqsUpTo(S, n) == UNION {[1..k -> S] : k \in 0..n}

OptionInputs == SeqsUpTo(OptionPairs, MaxOptions)

ContentTypes == {"application/json", "multipart/form-data", "text/plain"}

NoMediaRequest ==
    [name |-> Absent, width |-> AbsentNum, height |-> AbsentNum, units |-> Absent]

MediaRequest(name, width, height, units) ==
    [name |-> name, width |-> width, height |-> height, units |-> units]

\* media[size] of the requests that set it
MediaInputs ==
    {MediaRequest("letter", Num(85), Num(110), "inches"),
     MediaRequest("letter", Num(85), Num(140), "inches"),
     MediaRequest("legal", AbsentNum, AbsentNum, Absent),
     MediaRequest("103x164", Num(1030), Num(1640), "millimeters"),
     MediaRequest(Absent, Num(85), AbsentNum, Absent),
     MediaRequest(Absent, Num(0), AbsentNum, Absent),
     MediaRequest(Absent, Num(0), Num(0), Absent),
     MediaRequest(Absent, Num(0), Num(60), "inches"),
     MediaRequest("na_letter", AbsentNum, AbsentNum, Absent),
     MediaRequest(Absent, Num(40), Num(60), "in"),
     MediaRequest(Absent, Num(40), TextNum, "inches"),
     MediaRequest(Absent, NaN, Num(60), "points")}

\* Requests vary the selector, the options or the media size, not all at once
PostInputs ==
    [content_type : ContentTypes, selector : SelectorInputs,
     options : {<<>>}, is_async : {FALSE}, media : {NoMediaRequest}]
    \cup [content_type : ContentTypes \ {"text/plain"},
          selector : {EmptyRawSelector, [EmptyRawSelector EXCEPT !.namePrefix = <<"h">>]},
          options : OptionInputs, is_async : BOOLEAN, media : {NoMediaRequest}]
    \cup [content_type : ContentTypes \ {"text/plain"},
          selector : {EmptyRawSelector},
          options : {<<>>, << <<"media", "na_letter_8.5x11in">> >>,
                     << <<"sp ace", "3">> >>},
          is_async : {FALSE}, media : MediaInputs]

GetInputs == [selector : SelectorInputs]

(***************************************************************************)
(* Spec: the request handlers                                              *)
(***************************************************************************)

IdlePrint == [pos |-> "idle"]
IdleConc == [t \in {} |-> None]
IdleCall == [pos |-> "idle"]

InitRequests ==
    /\ enabled \in SUBSET {"cups", "brother_ql"}
    /\ cupsPrinters \in CupsWorlds
    /\ usbDevices \in UsbWorlds
    /\ resp = NoResponse
    /\ pj = IdlePrint /\ job = None /\ now = 0 /\ hist = <<>>
    /\ pc = IdleConc /\ cups_lock = Unlocked /\ inLib = {} /\ cache = <<>>
    /\ cacheLock = Unlocked /\ tl = IdleConc /\ made = <<>>
    /\ dl = IdleCall

\* One request is handled at a time in this specification
PostPrintJob ==
    /\ resp.op = "none"
    /\ \E req \in PostInputs : resp' = on_post(req)
    /\ UNCHANGED <<enabled, cupsPrinters, usbDevices, pj, job, now, hist,
                   pc, cups_lock, inLib, cache, cacheLock, tl, made, dl>>

GetPrinters ==
    /\ resp.op = "none"
    /\ \E req \in GetInputs : resp' = on_get_printers(req)
    /\ UNCHANGED <<enabled, cupsPrinters, usbDevices, pj, job, now, hist,
                   pc, cups_lock, inLib, cache, cacheLock, tl, made, dl>>

\* The response is sent and the worker takes the next request
Respond ==
    /\ resp.op # "none"
    /\ resp' = NoResponse
    /\ UNCHANGED <<enabled, cupsPrinters, usbDevices, pj, job, now, hist,
                   pc, cups_lock, inLib, cache, cacheLock, tl, made, dl>>

Next == PostPrintJob \/ GetPrinters \/ Respond

Spec == InitRequests /\ [][Next]_vars

(***************************************************************************)
(* SpecPrint: one call of a backend's print                                *)
(*                                                                         *)
(* The clock counts tenths of a second. A call of CUPS that the thread     *)
(* has made returns within MaxLag ticks; everything else the thread does   *)
(* takes no time, and a sleep lasts exactly as long as it was asked to.    *)
(***************************************************************************)

MAX_WAIT_TIME == 250    \* MAX_WAIT_TIME = 25.0
FIRST_SLEEP == 1        \* sleep_timer = 0.1
LATER_SLEEP == 10       \* sleep_timer = 1.0

MaxLag == 1             \* ticks a call of CUPS may take to return
Horizon == 270          \* the last tick of the clock

IPP_NOT_FOUND == "IPP_NOT_FOUND"
IPP_NOT_AUTHORIZED == "IPP_NOT_AUTHORIZED"
IPP_OTHER == "IPP_INTERNAL_ERROR"

NoJob == [exists |-> FALSE, state |-> 0]

NoHistory ==
    [calls |-> <<>>,          \* backend calls made, in order
     polls |-> 0,             \* get_job calls made by the loop
     slept |-> 0,             \* time.sleep calls made by the loop
     plain |-> TRUE,          \* the job has only gone PENDING, PROCESSING, COMPLETED
     completed |-> "no",      \* when the job completed, relative to start_time
     enable |-> "none",       \* how the call of enablePrinter ended
     converted |-> 0]         \* files turned into images by brother_ql's print

PrintInputs ==
    [system : {"cups", "brother_ql"},
     is_async : BOOLEAN,
     paused : BOOLEAN,      \* printer_state == STOPPED and "paused" in state_reasons
     files : {<<"application/pdf">>, <<"image/png", "text/html">>,
              <<"text/html", "application/pdf">>, <<>>}]

NewCall(input) ==
    [pos |-> "start", system |-> input.system, is_async |-> input.is_async,
     paused |-> input.paused, files |-> input.files,
     start_time |-> 0, sleep_timer |-> 0, wake |-> 0, lag |-> 0,
     print_job |-> <<>>, outcome |-> "none", status |-> 0, job_state |-> 0]

InitPrint ==
    /\ enabled = {"cups", "brother_ql"}
    /\ cupsPrinters = <<>>
    /\ usbDevices = <<>>
    /\ resp = NoResponse
    /\ \E input \in PrintInputs :
           /\ input.system = "brother_ql" => ~input.paused
           /\ pj = NewCall(input)
    /\ job = NoJob /\ now = 0 /\ hist = NoHistory
    /\ pc = IdleConc /\ cups_lock = Unlocked /\ inLib = {} /\ cache = <<>>
    /\ cacheLock = Unlocked /\ tl = IdleConc /\ made = <<>>
    /\ dl = IdleCall

otherPrint == <<enabled, cupsPrinters, usbDevices, resp,
                pc, cups_lock, inLib, cache, cacheLock, tl, made, dl>>

Raise(status) ==
    [pj EXCEPT !.pos = "raised", !.outcome = "raise", !.status = status, !.lag = 0]

Return(job_state) ==
    [pj EXCEPT !.pos = "returned", !.outcome = "return", !.job_state = job_state, !.lag = 0]

\* The content-type test of CupsPrintSystem.print
cups_file_supported(content_type) ==
    content_type \in {"application/pdf", "image/png", "text/plain"}

\* The content-type test of BrotherQLPrintSystem.print
brother_file_supported(content_type) ==
    content_type \in {"application/pdf", "image/png"}

\* CupsPrintSystem.print before its first call of CUPS: the files are
\* checked, the options merged
CupsStart ==
    /\ pj.pos = "start" /\ pj.system = "cups"
    /\ pj' = IF pj.files = <<>> THEN Raise(500)         \* ValueError
             ELSE IF \E i \in 1..Len(pj.files) : ~cups_file_supported(pj.files[i])
             THEN Raise(400)
             ELSE [pj EXCEPT !.pos = IF pj.paused THEN "enable" ELSE "submit"]
    /\ UNCHANGED <<job, now, hist>> /\ UNCHANGED otherPrint

\* An enablePrinter whose IPPError is swallowed
CupsEnable_ignoring_failure ==
    /\ pj.pos = "enable"
    /\ \E result \in {"ok", IPP_NOT_AUTHORIZED, IPP_OTHER} :
           /\ hist' = [hist EXCEPT !.calls = Append(@, "enablePrinter"),
                                   !.enable = result]
           /\ pj' = [pj EXCEPT !.pos = "submit"]
    /\ UNCHANGED <<job, now>> /\ UNCHANGED otherPrint

\* If the printer is disabled, we need CUPS to enable it prior to use
CupsEnable ==
    /\ pj.pos = "enable"
    /\ \E result \in {"ok", IPP_NOT_AUTHORIZED, IPP_OTHER} :
           /\ hist' = [hist EXCEPT !.calls = Append(@, "enablePrinter"),
                                   !.enable = result]
           /\ pj' = IF result = "ok" THEN [pj EXCEPT !.pos = "submit"]
                    ELSE IF result = IPP_NOT_AUTHORIZED THEN Raise(400)
                    ELSE Raise(500)
    /\ UNCHANGED <<job, now>> /\ UNCHANGED otherPrint

\* printFiles, then start_time = time.time() and sleep_timer = 0.1; an
\* IPPError of printFiles is not caught
CupsSubmit ==
    /\ pj.pos = "submit"
    /\ hist' = [hist EXCEPT !.calls = Append(@, "printFiles")]
    /\ \/ /\ job' = [exists |-> TRUE, state |-> PENDING]
          /\ pj' = [pj EXCEPT !.pos = "poll", !.start_time = now,
                              !.sleep_timer = FIRST_SLEEP, !.lag = 0]
       \/ /\ job' = job
          /\ pj' = Raise(500)
    /\ UNCHANGED now /\ UNCHANGED otherPrint

\* What getJobAttributes does: it raises an IPPError or returns attributes
IPPError(code) == [error |-> code, job_state |-> 0]
JobAttributes(job_state) == [error |-> "", job_state |-> job_state]

\* CupsPrintSystem.get_job(job_id) on what getJobAttributes answers:
\* <<>> for None, <<state>> for a PrintJob, "raise" for a server error
get_job(answer) ==
    IF answer.error = IPP_NOT_FOUND THEN [kind |-> "value", value |-> <<>>]
    ELSE IF answer.error # "" THEN [kind |-> "raise", value |-> <<>>]
    ELSE IF answer.job_state = 0 THEN [kind |-> "raise", value |-> <<>>]
    ELSE [kind |-> "value", value |-> <<answer.job_state>>]

\* What getJobAttributes can answer for the job as the spooler holds it
JobAnswers ==
    {IF job.exists THEN JobAttributes(job.state) ELSE IPPError(IPP_NOT_FOUND),
     IPPError(IPP_OTHER)}

\* The poll taking an absent job for one that has completed
CupsPoll_absent_completed ==
    /\ pj.pos = "poll"
    /\ \E answer \in JobAnswers :
         LET got == get_job(answer)
         IN  /\ hist' = [hist EXCEPT !.polls = @ + 1,
                                     !.calls = IF @ = <<>> \/ @[Len(@)] # "getJobAttributes"
                                               THEN Append(@, "getJobAttributes") ELSE @,
                                     !.plain = @ /\ answer.error = ""]
             /\ pj' = IF got.kind = "raise" THEN Raise(500)
                      ELSE IF got.value = <<>> THEN Return(COMPLETED)
                      ELSE [pj EXCEPT !.pos = "check", !.print_job = got.value, !.lag = 0]
    /\ UNCHANGED <<job, now>> /\ UNCHANGED otherPrint

\* print_job = self.get_job(job_id), and the error when it is None
CupsPoll ==
    /\ pj.pos = "poll"
    /\ \E answer \in JobAnswers :
         LET got == get_job(answer)
         IN  /\ hist' = [hist EXCEPT !.polls = @ + 1,
                                     !.calls = IF @ = <<>> \/ @[Len(@)] # "getJobAttributes"
                                               THEN Append(@, "getJobAttributes") ELSE @,
                                     !.plain = @ /\ answer.error = ""]
             /\ pj' = IF got.kind = "raise" \/ got.value = <<>> THEN Raise(500)
                      ELSE [pj EXCEPT !.pos = "check", !.print_job = got.value, !.lag = 0]
    /\ UNCHANGED <<job, now>> /\ UNCHANGED otherPrint

\* The loop leaving after its first poll whatever the job does
exit_always(is_async, waited_time, sleep_timer, job_state) == TRUE

\* The exit test of the loop without its wait budget
exit_no_budget(is_async, waited_time, sleep_timer, job_state) ==
    \/ is_async
    \/ job_state \notin {PENDING, PROCESSING}

\* The exit test of the loop without is_async
exit_sync_only(is_async, waited_time, sleep_timer, job_state) ==
    \/ waited_time + sleep_timer > MAX_WAIT_TIME
    \/ job_state \notin {PENDING, PROCESSING}

\* The exit test of the loop with COMPLETED as the only state that ends it
exit_when_completed(is_async, waited_time, sleep_timer, job_state) ==
    \/ is_async
    \/ waited_time + sleep_timer > MAX_WAIT_TIME
    \/ job_state = COMPLETED

\* The exit test of the loop: is_async or waited_time + sleep_timer >
\* MAX_WAIT_TIME or the job state is neither PENDING nor PROCESSING
exit_loop(is_async, waited_time, sleep_timer, job_state) ==
    \/ is_async
    \/ waited_time + sleep_timer > MAX_WAIT_TIME
    \/ job_state \notin {PENDING, PROCESSING}

\* waited_time = time.time() - start_time, the exit test, and either the
\* return of print_job or the start of time.sleep(sleep_timer)
CupsCheck ==
    /\ pj.pos = "check"
    /\ LET waited_time == now - pj.start_time
       IN  IF exit_loop(pj.is_async, waited_time, pj.sleep_timer, pj.print_job[1])
           THEN /\ pj' = Return(pj.print_job[1])
                /\ hist' = hist
           ELSE /\ pj' = [pj EXCEPT !.pos = "sleeping", !.wake = now + pj.sleep_timer,
                                    !.lag = 0]
                /\ hist' = [hist EXCEPT !.slept = @ + 1]
    /\ UNCHANGED <<job, now>> /\ UNCHANGED otherPrint

\* time.sleep returns, and sleep_timer = 1.0
CupsWake ==
    /\ pj.pos = "sleeping" /\ now >= pj.wake
    /\ pj' = [pj EXCEPT !.pos = "poll", !.sleep_timer = LATER_SLEEP, !.lag = 0]
    /\ UNCHANGED <<job, now, hist>> /\ UNCHANGED otherPrint

\* The files that the loop over files converts before it ends, normally or
\* at the first file of an unknown type
brother_converted(files) ==
    LET unknown == {i \in 1..Len(files) : ~brother_file_supported(files[i])}
    IN  IF unknown = {} THEN Len(files)
        ELSE (CHOOSE i \in unknown : \A j \in unknown : i <= j) - 1

\* The loop over files without its test of the file type
BrotherStart_unchecked ==
    /\ pj.pos = "start" /\ pj.system = "brother_ql"
    /\ pj' = [pj EXCEPT !.pos = "send"]
    /\ hist' = [hist EXCEPT !.converted = Len(pj.files)]
    /\ UNCHANGED <<job, now>> /\ UNCHANGED otherPrint

\* BrotherQLPrintSystem.print up to the conversion of the files: each file
\* is converted as the loop comes to it
BrotherStart ==
    /\ pj.pos = "start" /\ pj.system = "brother_ql"
    /\ pj' = IF \E i \in 1..Len(pj.files) : ~brother_file_supported(pj.files[i])
             THEN Raise(400)
             ELSE [pj EXCEPT !.pos = "send"]
    /\ hist' = [hist EXCEPT !.converted = brother_converted(pj.files)]
    /\ UNCHANGED <<job, now>> /\ UNCHANGED otherPrint

\* send(..., blocking=not is_async) and the PrintJob built from its result
BrotherSend ==
    /\ pj.pos = "send"
    /\ hist' = [hist EXCEPT !.calls =
                    Append(@, IF ~pj.is_async THEN "send blocking" ELSE "send non-blocking")]
    /\ \E did_print \in BOOLEAN :
           pj' = IF pj.is_async THEN Return(PENDING)
                 ELSE IF did_print THEN Return(COMPLETED)
                 ELSE Return(ABORTED)
    /\ UNCHANGED <<job, now>> /\ UNCHANGED otherPrint

\* A tenth of a second passes: in a sleep, while the files are written
\* ahead of printFiles, between the answer of getJobAttributes and the
\* clock reading that follows it, or after print has returned while the
\* job goes on within the wait budget
Tick ==
    /\ now < Horizon
    /\ \/ pj.pos = "sleeping" /\ now < pj.wake
       \/ pj.pos \in {"submit", "check"} /\ pj.lag < MaxLag
       \/ /\ pj.pos = "returned" /\ job.exists
          /\ job.state \in {PENDING, PROCESSING}
          /\ now - pj.start_time < MAX_WAIT_TIME
    /\ now' = now + 1
    /\ pj' = IF pj.pos \in {"submit", "check"} THEN [pj EXCEPT !.lag = @ + 1] ELSE pj
    /\ UNCHANGED <<job, hist>> /\ UNCHANGED otherPrint

\* The spooler's job lifecycle
JobMoves ==
    {<<PENDING, PROCESSING>>, <<PROCESSING, COMPLETED>>,
     <<PENDING, PENDING_HELD>>, <<PROCESSING, STOPPED>>,
     <<PENDING, CANCELED>>, <<PROCESSING, ABORTED>>}

\* When the job completed, as the claims about the wait budget read it
CompletedWhen(elapsed) ==
    IF elapsed <= MAX_WAIT_TIME - LATER_SLEEP - MaxLag THEN "early"
    ELSE IF elapsed <= MAX_WAIT_TIME THEN "in budget"
    ELSE "late"

\* The spooler moves the job on
JobAdvance ==
    /\ job.exists
    /\ pj.pos # "raised"
    /\ \E move \in JobMoves :
           /\ move[1] = job.state
           /\ job' = [job EXCEPT !.state = move[2]]
           /\ hist' = [hist EXCEPT
                  !.plain = @ /\ move \in {<<PENDING, PROCESSING>>, <<PROCESSING, COMPLETED>>},
                  !.completed = IF move[2] = COMPLETED
                                THEN CompletedWhen(now - pj.start_time) ELSE @]
    /\ UNCHANGED <<pj, now>> /\ UNCHANGED otherPrint

\* The spooler forgets a job that has ended
JobPurge ==
    /\ job.exists /\ job.state \in {CANCELED, ABORTED, COMPLETED}
    /\ pj.pos \notin {"raised", "returned"}
    /\ job' = [job EXCEPT !.exists = FALSE]
    /\ hist' = [hist EXCEPT !.plain = FALSE]
    /\ UNCHANGED <<pj, now>> /\ UNCHANGED otherPrint

CupsStep ==
    \/ CupsStart \/ CupsEnable \/ CupsSubmit \/ CupsPoll \/ CupsCheck \/ CupsWake

BrotherStep == BrotherStart \/ BrotherSend

NextPrint == CupsStep \/ BrotherStep \/ Tick \/ JobAdvance \/ JobPurge

SpecPrint == InitPrint /\ [][NextPrint]_vars

(***************************************************************************)
(* SpecStuck: a synchronous CUPS print of a job that the spooler starts    *)
(* and never finishes. The worker thread keeps being scheduled and the     *)
(* clock keeps running.                                                    *)
(***************************************************************************)

InitStuck == InitPrint /\ pj.system = "cups" /\ ~pj.is_async

\* The spooler starts the job, and leaves it in PROCESSING
JobStarts ==
    /\ job.exists /\ job.state = PENDING
    /\ pj.pos # "raised"
    /\ job' = [job EXCEPT !.state = PROCESSING]
    /\ UNCHANGED <<pj, now, hist>> /\ UNCHANGED otherPrint

NextStuck == CupsStep \/ Tick \/ JobStarts

SpecStuck ==
    InitStuck /\ [][NextStuck]_vars /\ WF_vars(CupsStep) /\ WF_vars(Tick)

(***************************************************************************)
(* SpecConc: worker threads serving requests at the same time              *)
(*                                                                         *)
(* Every request first reads print_systems.supported_systems, a            *)
(* functools.cached_property: up to Python 3.11 it computes under a lock   *)
(* of its own, from Python 3.12 on it takes no lock. The repository names  *)
(* no Python version, so the build is either.                              *)
(***************************************************************************)

NThreads == 2
Threads == 1..NThreads

\* "POST /print-job sync" is a submission whose async field is false
Requests == {"GET /printers", "GET /print-job", "POST /print-job", "POST /print-job sync"}

\* A call into the CUPS client library, made inside `with cups_lock` or not
LibCall(name, locked) == [kind |-> "lib", name |-> name, locked |-> locked, effect |-> "none"]

\* A step that does not enter the CUPS client library
LocalStep(name, effect) == [kind |-> "local", name |-> name, locked |-> FALSE, effect |-> effect]

\* CupsPrintSystem.is_supported: with cups_lock: Connection().getPrinters()
cups_is_supported ==
    <<[LibCall("Connection().getPrinters", TRUE) EXCEPT !.effect = "probe cups"]>>

\* CupsPrintSystem.__init__: with cups_lock: self.conn = Connection()
cups_init ==
    <<[LibCall("Connection", TRUE) EXCEPT !.effect = "construct cups"]>>

\* BrotherQLPrintSystem.is_supported and the constructor: no call of CUPS
brother_is_supported == <<LocalStep("BrotherQLPrintSystem.is_supported", "probe brother_ql")>>
brother_init == <<LocalStep("BrotherQLPrintSystem()", "construct brother_ql")>>

\* [system() for system in all_print_systems if system.is_supported()]
supported_systems_calls ==
    cups_is_supported \o (IF "cups" \in enabled THEN cups_init ELSE <<>>)
    \o brother_is_supported \o (IF "brother_ql" \in enabled THEN brother_init ELSE <<>>)

\* The calls of CupsPrintSystem.get_printers for one printer that has a PPD
\* file: the parse of the file and the walk through its option groups are
\* outside `with cups_lock`
cups_get_printers_calls ==
    <<LibCall("getPrinters", TRUE),
      LibCall("getPrinterAttributes", TRUE),
      LibCall("getPPD", TRUE),
      LibCall("PPD(ppd_file)", FALSE),
      LibCall("ppd.optionGroups", FALSE)>>

cups_get_job_calls == <<LibCall("getJobAttributes", TRUE)>>

\* CupsPrintSystem.print on a paused printer, asynchronous
cups_print_calls ==
    <<LibCall("enablePrinter", TRUE), LibCall("printFiles", TRUE)>> \o cups_get_job_calls

\* A sleep made inside `with cups_lock`, which the code does not have
time_sleep_locked == [kind |-> "sleep", name |-> "time.sleep", locked |-> TRUE, effect |-> "none"]

\* time.sleep(sleep_timer) in the loop of print: outside every `with cups_lock`
time_sleep == [kind |-> "sleep", name |-> "time.sleep", locked |-> FALSE, effect |-> "none"]

\* CupsPrintSystem.print on a paused printer, synchronous, with a job that
\* is still PENDING at the first poll: self.get_job, time.sleep, self.get_job
cups_print_sync_calls ==
    <<LibCall("enablePrinter", TRUE), LibCall("printFiles", TRUE)>>
    \o cups_get_job_calls \o <<time_sleep>> \o cups_get_job_calls

brother_get_printers_calls == <<LocalStep("usb.core.find", "none")>>
brother_get_job_calls == <<LocalStep("BrotherQLPrintSystem.get_job", "none")>>

HasSystem(systems, name) == \E i \in 1..Len(systems) : systems[i][1] = name

\* What a handler calls, given the supported_systems it was handed
HandlerCalls(request, systems) ==
    LET cups == HasSystem(systems, "cups")
        brother == HasSystem(systems, "brother_ql")
    IN  IF request = "GET /printers"
        THEN (IF cups THEN cups_get_printers_calls ELSE <<>>)
             \o (IF brother THEN brother_get_printers_calls ELSE <<>>)
        ELSE IF request = "GET /print-job"
        THEN (IF cups THEN cups_get_job_calls ELSE <<>>)
             \o (IF brother THEN brother_get_job_calls ELSE <<>>)
        ELSE IF cups
        THEN cups_get_printers_calls
             \o (IF request = "POST /print-job" THEN cups_print_calls ELSE cups_print_sync_calls)
        ELSE IF brother THEN brother_get_printers_calls
        ELSE <<>>

\* The names of all_print_systems, as a set
Backends == {all_print_systems[i] : i \in 1..Len(all_print_systems)}

NoThread ==
    [request |-> "none", todo |-> <<>>, inCall |-> FALSE, built |-> <<>>, systems |-> <<>>]

NothingMade ==
    [probes |-> [s \in Backends |-> 0], instances |-> [s \in Backends |-> 0]]

InitConc ==
    /\ enabled \in SUBSET Backends
    /\ cupsPrinters = <<>> /\ usbDevices = <<>>
    /\ resp = NoResponse /\ pj = IdlePrint /\ job = None /\ now = 0 /\ hist = <<>>
    /\ pc = [t \in Threads |-> "idle"]
    /\ tl = [t \in Threads |-> NoThread]
    /\ cups_lock = Unlocked /\ inLib = {}
    /\ \E locking \in BOOLEAN : cache = [locking |-> locking, value |-> <<>>]
    /\ cacheLock = Unlocked
    /\ made = NothingMade
    /\ dl = IdleCall

otherConc == <<enabled, cupsPrinters, usbDevices, resp, pj, job, now, hist, dl>>

\* A worker thread takes a request
Request(t) ==
    /\ pc[t] = "idle"
    /\ \E request \in Requests : tl' = [tl EXCEPT ![t].request = request]
    /\ pc' = [pc EXCEPT ![t] = "lookup"]
    /\ UNCHANGED <<cups_lock, inLib, cache, cacheLock, made>> /\ UNCHANGED otherConc

\* The handler with the list it was handed
Handle(t, systems) ==
    [tl[t] EXCEPT !.systems = <<systems>>, !.todo = HandlerCalls(tl[t].request, systems),
                  !.built = <<>>]

\* cached_property.__get__: the look into the instance's __dict__
Lookup(t) ==
    /\ pc[t] = "lookup"
    /\ IF cache.value # <<>>
       THEN /\ tl' = [tl EXCEPT ![t] = Handle(t, cache.value[1])]
            /\ pc' = [pc EXCEPT ![t] = "handle"]
       ELSE /\ tl' = [tl EXCEPT ![t].todo = supported_systems_calls]
            /\ pc' = [pc EXCEPT ![t] = IF cache.locking THEN "wait" ELSE "compute"]
    /\ UNCHANGED <<cups_lock, inLib, cache, cacheLock, made>> /\ UNCHANGED otherConc

\* cached_property.__get__ up to Python 3.11: with self.lock, and the
\* second look into __dict__
LockCache(t) ==
    /\ pc[t] = "wait" /\ cacheLock = Unlocked
    /\ IF cache.value # <<>>
       THEN /\ tl' = [tl EXCEPT ![t] = Handle(t, cache.value[1])]
            /\ pc' = [pc EXCEPT ![t] = "handle"]
            /\ cacheLock' = cacheLock
       ELSE /\ tl' = tl
            /\ pc' = [pc EXCEPT ![t] = "compute"]
            /\ cacheLock' = t
    /\ UNCHANGED <<cups_lock, inLib, cache, made>> /\ UNCHANGED otherConc

\* What a finished step leaves behind: a probe counted, an instance made
Effect(t, step) ==
    IF step.effect = "probe cups"
    THEN /\ made' = [made EXCEPT !.probes["cups"] = @ + 1] /\ tl' = [tl EXCEPT ![t].todo = Tail(@), ![t].inCall = FALSE]
    ELSE IF step.effect = "probe brother_ql"
    THEN /\ made' = [made EXCEPT !.probes["brother_ql"] = @ + 1] /\ tl' = [tl EXCEPT ![t].todo = Tail(@), ![t].inCall = FALSE]
    ELSE IF step.effect = "construct cups"
    THEN /\ made' = [made EXCEPT !.instances["cups"] = @ + 1]
         /\ tl' = [tl EXCEPT ![t].todo = Tail(@), ![t].inCall = FALSE,
                             ![t].built = Append(@, <<"cups", made.instances["cups"] + 1>>)]
    ELSE IF step.effect = "construct brother_ql"
    THEN /\ made' = [made EXCEPT !.instances["brother_ql"] = @ + 1]
         /\ tl' = [tl EXCEPT ![t].todo = Tail(@), ![t].inCall = FALSE,
                             ![t].built = Append(@, <<"brother_ql", made.instances["brother_ql"] + 1>>)]
    ELSE /\ made' = made /\ tl' = [tl EXCEPT ![t].todo = Tail(@), ![t].inCall = FALSE]

Running(t) == pc[t] \in {"compute", "handle"} /\ tl[t].todo # <<>>

\* The thread enters a call of the CUPS library, through cups_lock where
\* the code has `with cups_lock`
EnterCups(t) ==
    /\ Running(t) /\ ~tl[t].inCall
    /\ LET step == Head(tl[t].todo)
       IN  /\ step.kind = "lib"
           /\ IF step.locked
              THEN cups_lock = Unlocked /\ cups_lock' = t
              ELSE cups_lock' = cups_lock
    /\ inLib' = inLib \cup {t}
    /\ tl' = [tl EXCEPT ![t].inCall = TRUE]
    /\ UNCHANGED <<pc, cache, cacheLock, made>> /\ UNCHANGED otherConc

\* The call returns, and the `with cups_lock` block ends
LeaveCups(t) ==
    /\ Running(t) /\ tl[t].inCall
    /\ LET step == Head(tl[t].todo)
       IN  /\ step.kind = "lib"
           /\ cups_lock' = IF step.locked THEN Unlocked ELSE cups_lock
           /\ Effect(t, step)
    /\ inLib' = inLib \ {t}
    /\ UNCHANGED <<pc, cache, cacheLock>> /\ UNCHANGED otherConc

\* The call raises inside a handler: the `with cups_lock` block ends all the
\* same, and the handler gives up the rest of its calls
RaiseCups(t) ==
    /\ pc[t] = "handle" /\ Running(t) /\ tl[t].inCall
    /\ LET step == Head(tl[t].todo)
       IN  /\ step.kind = "lib"
           /\ cups_lock' = IF step.locked THEN Unlocked ELSE cups_lock
    /\ inLib' = inLib \ {t}
    /\ tl' = [tl EXCEPT ![t].todo = <<>>, ![t].inCall = FALSE]
    /\ UNCHANGED <<pc, cache, cacheLock, made>> /\ UNCHANGED otherConc

\* The thread goes to sleep between two polls
Sleep(t) ==
    /\ Running(t) /\ ~tl[t].inCall
    /\ LET step == Head(tl[t].todo)
       IN  /\ step.kind = "sleep"
           /\ IF step.locked
              THEN cups_lock = Unlocked /\ cups_lock' = t
              ELSE cups_lock' = cups_lock
    /\ tl' = [tl EXCEPT ![t].inCall = TRUE]
    /\ UNCHANGED <<pc, inLib, cache, cacheLock, made>> /\ UNCHANGED otherConc

\* The sleep is over
Wake(t) ==
    /\ Running(t) /\ tl[t].inCall
    /\ LET step == Head(tl[t].todo)
       IN  /\ step.kind = "sleep"
           /\ cups_lock' = IF step.locked THEN Unlocked ELSE cups_lock
    /\ tl' = [tl EXCEPT ![t].todo = Tail(@), ![t].inCall = FALSE]
    /\ UNCHANGED <<pc, inLib, cache, cacheLock, made>> /\ UNCHANGED otherConc

\* A step of the thread outside the CUPS library
Local(t) ==
    /\ Running(t) /\ ~tl[t].inCall
    /\ LET step == Head(tl[t].todo)
       IN  step.kind = "local" /\ Effect(t, step)
    /\ UNCHANGED <<pc, cups_lock, inLib, cache, cacheLock>> /\ UNCHANGED otherConc

\* cached_property.__get__: the list goes into __dict__ and to the caller
Store(t) ==
    /\ pc[t] = "compute" /\ tl[t].todo = <<>>
    /\ cache' = [cache EXCEPT !.value = <<tl[t].built>>]
    /\ cacheLock' = IF cache.locking THEN Unlocked ELSE cacheLock
    /\ tl' = [tl EXCEPT ![t] = Handle(t, tl[t].built)]
    /\ pc' = [pc EXCEPT ![t] = "handle"]
    /\ UNCHANGED <<cups_lock, inLib, made>> /\ UNCHANGED otherConc

\* The handler responds
Finish(t) ==
    /\ pc[t] = "handle" /\ tl[t].todo = <<>>
    /\ pc' = [pc EXCEPT ![t] = "done"]
    /\ UNCHANGED <<cups_lock, inLib, cache, cacheLock, tl, made>> /\ UNCHANGED otherConc

NextConc ==
    \E t \in Threads :
        \/ Request(t) \/ Lookup(t) \/ LockCache(t) \/ EnterCups(t)
        \/ LeaveCups(t) \/ RaiseCups(t) \/ Sleep(t) \/ Wake(t)
        \/ Local(t) \/ Store(t) \/ Finish(t)

SpecConc == InitConc /\ [][NextConc]_vars

(***************************************************************************)
(* SpecFiles: one call of parse_json_request on a list of files. The       *)
(* downloads run on the threads of the module's executor and complete in   *)
(* any order, each with any of the outcomes requests.get can have.         *)
(***************************************************************************)

MaxFiles == 3           \* the longest files list of a request

\* A URL as urlparse splits it; the empty string has no scheme and no path
Url(scheme, path) == [scheme |-> scheme, path |-> path]
EmptyUrl == Url("", "")

\* One entry of json_data["files"]: has_url is `"fileUrl" in file`, type is
\* the JSON type of the entry and url_type the JSON type of its fileUrl
FileUrlEntry(url) ==
    [type |-> "dict", has_url |-> TRUE, fileUrl |-> url, url_type |-> "str",
     contentType |-> None, text |-> None]
InlineEntry(content_type, text) ==
    [type |-> "dict", has_url |-> FALSE, fileUrl |-> EmptyUrl, url_type |-> "str",
     contentType |-> content_type, text |-> text]

\* An entry that is a string, and an entry whose fileUrl is the number 7
NotADict == [InlineEntry(None, None) EXCEPT !.type = "str"]
NumberUrlEntry == [FileUrlEntry(Url("", "7")) EXCEPT !.url_type = "int"]

FileEntries ==
    {FileUrlEntry(Url("http", "a")), FileUrlEntry(Url("https", "b")),
     FileUrlEntry(Url("ftp", "c")), FileUrlEntry(EmptyUrl),
     InlineEntry("text/plain", "x"), InlineEntry(None, "x"),
     NotADict, NumberUrlEntry}

\* json_data["files"]: a list that may be empty
FilesInputs == UNION {[1..k -> FileEntries] : k \in 0..MaxFiles}

MaxParts == 2           \* the most parts named "files" of a multipart form

\* A part named "files" of a multipart form: its content type, which may be
\* missing, and its data
FileParts ==
    {InlineEntry("application/pdf", "x"), InlineEntry("image/png", "y"),
     InlineEntry(None, "x")}

\* The parts named "files" of a form, which may have none
MultipartInputs == UNION {[1..k -> FileParts] : k \in 0..MaxParts}

PrintFile(content_type, content) ==
    [content_type |-> content_type, content |-> content]

\* What the server at a URL answers with: the content names the URL
Served(url) == PrintFile("application/pdf", url.path)

\* How a call of requests.get and raise_for_status can end
FetchOutcomes == {"ok", "HTTPError", "ConnectionError", "ReadTimeout"}

\* The first loop over files: the URLs to download, or a rejection
RECURSIVE files_to_download_from(_, _, _)
files_to_download_from(files, i, files_to_download) ==
    IF i > Len(files) THEN [kind |-> "ok", urls |-> files_to_download]
    ELSE LET file_url == files[i].fileUrl IN
         IF files[i].type # "dict"
         THEN [kind |-> "HTTPBadRequest", urls |-> <<>>]
         ELSE IF ~files[i].has_url \/ file_url = EmptyUrl
         THEN files_to_download_from(files, i + 1, files_to_download)
         ELSE IF files[i].url_type # "str"
         THEN [kind |-> "HTTPBadRequest", urls |-> <<>>]
         \* `if file_url in futures` tests a dict that is still empty here
         ELSE IF file_url.scheme \notin {"http", "https"}
         THEN [kind |-> "HTTPBadRequest", urls |-> <<>>]
         ELSE files_to_download_from(files, i + 1,
                                     Append(files_to_download, file_url))

\* futures after `for url in files_to_download: futures[url] = submit(...)`:
\* per URL the number of the last download submitted for it
futures_of(files_to_download) ==
    [url \in {files_to_download[k] : k \in DOMAIN files_to_download} |->
        CHOOSE k \in DOMAIN files_to_download :
            /\ files_to_download[k] = url
            /\ \A j \in DOMAIN files_to_download :
                   files_to_download[j] = url => j <= k]

NoFiles == [pos |-> "start", content_type |-> "application/json", files |-> <<>>, tasks |-> <<>>, futures |-> <<>>,
            i |-> 1, downloaded_files |-> <<>>, status |-> 0,
            job_files |-> <<>>]

InitFiles ==
    /\ enabled = {} /\ cupsPrinters = <<>> /\ usbDevices = <<>>
    /\ resp = NoResponse /\ pj = IdlePrint /\ job = None /\ now = 0 /\ hist = <<>>
    /\ pc = IdleConc /\ cups_lock = Unlocked /\ inLib = {} /\ cache = <<>>
    /\ cacheLock = Unlocked /\ tl = IdleConc /\ made = <<>>
    /\ \/ \E files \in FilesInputs : dl = [NoFiles EXCEPT !.files = files]
       \/ \E parts \in MultipartInputs :
              dl = [NoFiles EXCEPT !.content_type = "multipart/form-data",
                                   !.files = parts]

otherFiles == <<enabled, cupsPrinters, usbDevices, resp, pj, job, now, hist,
                pc, cups_lock, inLib, cache, cacheLock, tl, made>>

RaiseFiles(status) == [dl EXCEPT !.pos = "raised", !.status = status]

\* parse_multipart_request: a PrintFile for every part named "files"
ParseMultipart ==
    /\ dl.pos = "start" /\ dl.content_type = "multipart/form-data"
    /\ dl' = IF \E k \in DOMAIN dl.files : dl.files[k].contentType = None
             THEN RaiseFiles(400)      \* Missing content type for file upload
             ELSE [dl EXCEPT !.pos = "returned",
                      !.downloaded_files =
                          [k \in DOMAIN dl.files |->
                              PrintFile(dl.files[k].contentType, dl.files[k].text)]]
    /\ UNCHANGED otherFiles

\* parse_json_request: files must be a list that is not empty; the URLs are
\* checked and then every download is handed to the executor
StartDownloads ==
    /\ dl.pos = "start" /\ dl.content_type = "application/json"
    /\ LET checked == files_to_download_from(dl.files, 1, <<>>) IN
       dl' = IF dl.files = <<>> THEN RaiseFiles(400)
             ELSE IF checked.kind # "ok" THEN RaiseFiles(400)
             ELSE [dl EXCEPT !.pos = "results",
                      !.tasks = [k \in DOMAIN checked.urls |->
                                    [url |-> checked.urls[k], done |-> FALSE,
                                     outcome |-> "none"]],
                      !.futures = futures_of(checked.urls)]
    /\ UNCHANGED otherFiles

\* A thread of the executor finishes one download, whatever the request's
\* thread is doing or has done
Fetch ==
    /\ \E k \in DOMAIN dl.tasks, outcome \in FetchOutcomes :
           /\ ~dl.tasks[k].done
           /\ dl' = [dl EXCEPT !.tasks[k].done = TRUE,
                               !.tasks[k].outcome = outcome]
    /\ UNCHANGED otherFiles

\* An inline file: contentType and one of base64 and text
inline_file(file) ==
    IF file.contentType = None \/ file.text = None
    THEN [kind |-> "HTTPBadRequest", file |-> PrintFile("", "")]
    ELSE [kind |-> "ok", file |-> PrintFile(file.contentType, file.text)]

\* One turn of the second loop over files; Future.result() blocks until the
\* download is done
NextFile ==
    /\ dl.pos = "results" /\ dl.i <= Len(dl.files)
    /\ LET file == dl.files[dl.i]
           take(print_file) ==
               [dl EXCEPT !.i = @ + 1,
                          !.downloaded_files = Append(@, print_file)]
       IN IF file.has_url
          THEN IF file.fileUrl \notin DOMAIN dl.futures
               THEN dl' = RaiseFiles(500)        \* KeyError
               ELSE LET future == dl.tasks[dl.futures[file.fileUrl]] IN
                    /\ future.done
                    /\ dl' = CASE future.outcome = "ok" ->
                                      take(Served(future.url))
                               [] future.outcome \in {"HTTPError", "ConnectionError"} ->
                                      RaiseFiles(400)
                               [] OTHER -> RaiseFiles(500)
          ELSE LET inline == inline_file(file) IN
               dl' = IF inline.kind = "ok" THEN take(inline.file)
                     ELSE RaiseFiles(400)
    /\ UNCHANGED otherFiles

\* parse_json_request returns the PrintRequest
ReturnRequest ==
    /\ dl.pos = "results" /\ dl.i > Len(dl.files)
    /\ dl' = [dl EXCEPT !.pos = "returned"]
    /\ UNCHANGED otherFiles

\* on_post hands data.files to the backend's print
HandOver ==
    /\ dl.pos = "returned"
    /\ dl' = [dl EXCEPT !.pos = "printed", !.job_files = dl.downloaded_files]
    /\ UNCHANGED otherFiles

NextFiles ==
    StartDownloads \/ ParseMultipart \/ Fetch \/ NextFile \/ ReturnRequest \/ HandOver

SpecFiles == InitFiles /\ [][NextFiles]_vars

(***************************************************************************)
(* SpecMedia: the printers are enumerated on a machine whose spooler       *)
(* reports any media-supported and media-default attributes, and           *)
(* parse_media_size is called for a size that a returned printer declares. *)
(***************************************************************************)

MaxMedia == 2           \* the longest media-supported list of a printer

\* "iso_a4_210x297mm", "om_photo_612x792" (points), "oe_letter_9x12in" (the
\* size name letter a second time), "auto" and "na_index_4xin"
A4Identifier ==
    <<"iso", "a4", Dimensions(Numeral("210", 2100), Numeral("297", 2970), "mm")>>
PhotoIdentifier ==
    <<"om", "photo", Dimensions(Numeral("612", 6120), Numeral("792", 7920), "")>>
WideLetterIdentifier ==
    <<"oe", "letter", Dimensions(Numeral("9", 90), Numeral("12", 120), "in")>>
AutoIdentifier == <<"auto">>
IndexIdentifier ==
    <<"na", "index", Dimensions(Numeral("4", 40), NotNumeral(""), "in")>>

MediaIdentifiers ==
    {LetterIdentifier, LegalIdentifier, A4Identifier, PhotoIdentifier,
     WideLetterIdentifier, AutoIdentifier, IndexIdentifier}

\* The printer Hp with the media attributes replaced
MediaPrinters ==
    {[PrinterLaser EXCEPT !.media_supported = media_supported,
                          !.media_default = media_default] :
        media_supported \in SeqsUpTo(MediaIdentifiers, MaxMedia),
        media_default \in {<<>>} \cup {<<identifier>> : identifier \in MediaIdentifiers}}

NoMediaCall ==
    [pos |-> "idle", printers |-> <<>>, printer |-> 0, size |-> 0,
     name |-> None, width |-> NoNum, height |-> NoNum, units |-> None,
     result |-> MediaOk(<<>>, None)]

InitMedia ==
    /\ enabled = {"cups", "brother_ql"}
    /\ \E printer \in MediaPrinters : cupsPrinters = <<printer>>
    /\ usbDevices \in {<<>>, <<UsbLabelPrinter>>}
    /\ resp = NoResponse /\ pj = IdlePrint /\ job = None /\ now = 0 /\ hist = <<>>
    /\ pc = IdleConc /\ cups_lock = Unlocked /\ inLib = {} /\ cache = <<>>
    /\ cacheLock = Unlocked /\ tl = IdleConc /\ made = <<>>
    /\ dl = NoMediaCall

otherMedia == <<enabled, cupsPrinters, usbDevices, resp, pj, job, now, hist,
                pc, cups_lock, inLib, cache, cacheLock, tl, made>>

\* Every enabled backend's get_printers with the empty selector, as the
\* handlers call it
EnumeratePrinters ==
    /\ dl.pos = "idle"
    /\ LET Printers(system) ==
               get_printers(system, PrinterSelector(NoneS, None, <<>>, <<>>))
       IN dl' = [dl EXCEPT !.pos = "listed",
                    !.printers = Flatten(MapSeq(Printers, supported_systems(enabled)))]
    /\ UNCHANGED otherMedia

\* parse_media_size for the name of a declared size, with the declared
\* width, height and units or with others
RequestDeclaredSize ==
    /\ dl.pos = "listed"
    /\ \E p \in DOMAIN dl.printers :
       \E k \in DOMAIN dl.printers[p].media_sizes :
          LET declared == dl.printers[p].media_sizes[k] IN
          \E width \in {declared.width, Num(declared.width.v + 10)},
             height \in {declared.height, Num(declared.height.v + 10)},
             units \in SizeUnitValues \cup {declared.units.value} :
                dl' = [dl EXCEPT !.pos = "parsed", !.printer = p, !.size = k,
                          !.name = declared.name, !.width = width, !.height = height, !.units = units,
                          !.result = parse_media_size(dl.printers[p], declared.name,
                                                      width, height, units)]
    /\ UNCHANGED otherMedia

\* The names asked for that a printer may not declare
OtherSizeNames == {"legal", "103x164", "na_letter", "custom", "Custom", "let ter"}

\* parse_media_size for a name that the printer does not declare, with and
\* without width, height and units
RequestOtherSize ==
    /\ dl.pos = "listed"
    /\ \E p \in DOMAIN dl.printers, name \in OtherSizeNames :
          /\ \A k \in DOMAIN dl.printers[p].media_sizes :
                 dl.printers[p].media_sizes[k].name # name
          /\ \E width \in {NoNum, Num(40)}, height \in {NoNum, Num(60)},
                units \in {None, "inches", "millimeters"} :
                dl' = [dl EXCEPT !.pos = "parsed", !.printer = p, !.size = 0,
                          !.name = name, !.width = width, !.height = height,
                          !.units = units,
                          !.result = parse_media_size(dl.printers[p], name,
                                                      width, height, units)]
    /\ UNCHANGED otherMedia

\* The next request
MediaDone ==
    /\ dl.pos = "parsed"
    /\ dl' = NoMediaCall
    /\ UNCHANGED otherMedia

NextMedia == EnumeratePrinters \/ RequestDeclaredSize \/ RequestOtherSize \/ MediaDone

SpecMedia == InitMedia /\ [][NextMedia]_vars

(***************************************************************************)
(* SpecJob: one call of PrintJobApi.on_get, which asks every enabled       *)
(* backend for the job in turn.                                            *)
(***************************************************************************)

MaxJobId == 2           \* the longest job id of a request, in characters

\* U+00B2, a character that str.isdigit() accepts and int() does not
SuperscriptTwo == "^2"

JobIdInputs == SeqsUpTo({"7", "a", SuperscriptTwo}, MaxJobId)

AsciiDigits == {Digit[n] : n \in DOMAIN Digit}

\* job_id.isdigit(): not empty and every character has the Unicode property
\* Numeric_Type Digit or Decimal
isdigit(text) ==
    /\ text # <<>>
    /\ \A i \in DOMAIN text : text[i] \in AsciiDigits \cup {SuperscriptTwo}

\* int(text) of a text that is not empty: the number, or a ValueError when
\* a character is not a decimal digit
RECURSIVE int_value(_)
int_value(text) ==
    IF text = <<>> THEN 0
    ELSE 10 * int_value(SubSeq(text, 1, Len(text) - 1))
         + (CHOOSE n \in 0..9 : Digit[n + 1] = text[Len(text)])

int(text) ==
    IF \A i \in DOMAIN text : text[i] \in AsciiDigits
    THEN [kind |-> "value", value |-> int_value(text)]
    ELSE [kind |-> "ValueError", value |-> 0]

\* The spooler's jobs: none, job 7 in PROCESSING, job 7 without a job-state
NoJobState == 0
SpoolerJobs ==
    {[known |-> {}, job_state |-> NoJobState],
     [known |-> {7}, job_state |-> PROCESSING],
     [known |-> {7}, job_state |-> NoJobState]}

\* What Connection.getJobAttributes(cups_job_id) can do
getJobAttributes(jobs, cups_job_id) ==
    {IF cups_job_id \in jobs.known THEN JobAttributes(jobs.job_state)
     ELSE IPPError(IPP_NOT_FOUND),
     IPPError(IPP_OTHER)}

NoStatusCall ==
    [pos |-> "loop", job_id |-> <<>>, jobs |-> [known |-> {}, job_state |-> NoJobState],
     i |-> 1, job_results |-> <<>>, calls |-> <<>>, answered |-> <<>>,
     raised_in |-> None, error |-> None, status |-> 0]

InitJob ==
    /\ enabled \in SUBSET Backends
    /\ cupsPrinters = <<>> /\ usbDevices = <<>>
    /\ resp = NoResponse /\ pj = IdlePrint /\ job = None /\ now = 0 /\ hist = <<>>
    /\ pc = IdleConc /\ cups_lock = Unlocked /\ inLib = {} /\ cache = <<>>
    /\ cacheLock = Unlocked /\ tl = IdleConc /\ made = <<>>
    /\ \E job_id \in JobIdInputs, jobs \in SpoolerJobs :
           dl = [NoStatusCall EXCEPT !.job_id = job_id, !.jobs = jobs]

otherJob == <<enabled, cupsPrinters, usbDevices, resp, pj, job, now, hist,
              pc, cups_lock, inLib, cache, cacheLock, tl, made>>

\* The backend that the loop of on_get asks next
AsksNext(system) ==
    /\ dl.pos = "loop"
    /\ dl.i <= Len(supported_systems(enabled))
    /\ supported_systems(enabled)[dl.i] = system

RaisedIn(system, error) ==
    [dl EXCEPT !.pos = "raised", !.raised_in = system, !.error = error,
               !.status = 500]

\* job = system.get_job(job_id) of the cups backend
CupsGetJob ==
    /\ AsksNext("cups")
    /\ IF ~isdigit(dl.job_id)
       THEN dl' = [dl EXCEPT !.i = @ + 1]
       ELSE LET cups_job_id == int(dl.job_id) IN
            IF cups_job_id.kind = "ValueError"
            THEN dl' = RaisedIn("cups", "ValueError")
            ELSE \E answer \in getJobAttributes(dl.jobs, cups_job_id.value) :
                    LET got == get_job(answer)
                        asked == [dl EXCEPT !.calls = Append(@, "getJobAttributes"),
                                            !.answered = Append(@, answer.error)]
                    IN  dl' = IF got.kind = "raise"
                              THEN [asked EXCEPT !.pos = "raised", !.raised_in = "cups",
                                                 !.error = "HTTPInternalServerError",
                                                 !.status = 500]
                              ELSE [asked EXCEPT !.i = @ + 1,
                                                 !.job_results = @ \o got.value]
    /\ UNCHANGED otherJob

\* job = system.get_job(job_id) of the brother_ql backend: always None
BrotherGetJob ==
    /\ AsksNext("brother_ql")
    /\ dl' = [dl EXCEPT !.i = @ + 1]
    /\ UNCHANGED otherJob

\* Not found, more than one result, or the job's state
StatusResponse ==
    /\ dl.pos = "loop"
    /\ dl.i > Len(supported_systems(enabled))
    /\ dl' = [dl EXCEPT !.pos = "done",
                        !.status = IF dl.job_results = <<>> THEN 404
                                   ELSE IF Len(dl.job_results) > 1 THEN 500
                                   ELSE 200]
    /\ UNCHANGED otherJob

NextJob == CupsGetJob \/ BrotherGetJob \/ StatusResponse

SpecJob == InitJob /\ [][NextJob]_vars

(***************************************************************************)
(* SpecDomains: the allowlist of origins. AllowDomainMiddleware checks the *)
(* Origin header of every request; DomainsSubmitApi.on_post approves an    *)
(* origin. An origin is held as the sequence of its characters.            *)
(***************************************************************************)

HttpScheme == <<"h", "t", "t", "p", ":", "/", "/">>
HttpsScheme == <<"h", "t", "t", "p", "s", ":", "/", "/">>
Port80 == <<":", "8", "0">>
Port443 == <<":", "4", "4", "3">>

\* The Origin headers and origin parameters of the model: none, plain
\* origins, one in capitals with a trailing slash, origins with an explicit
\* default port, one with another port and one that is not http or https
OriginInputs ==
    {<<>>,
     HttpScheme \o <<"a">>, HttpsScheme \o <<"a">>, HttpScheme \o <<"b">>,
     <<"H", "T", "T", "P", ":", "/", "/", "A", "/">>,
     HttpScheme \o <<"a">> \o Port80, HttpScheme \o <<"b">> \o Port80,
     HttpsScheme \o <<"a">> \o Port443, HttpsScheme \o <<"b">> \o Port443,
     HttpScheme \o <<"a", ":", "8", "0", "8", "0">>,
     <<"f", "t", "p", ":", "/", "/", "a">>}

\* str.lower() on the characters of the model
lower_char(c) ==
    CASE c = "A" -> "a" [] c = "H" -> "h" [] c = "T" -> "t" [] c = "P" -> "p"
      [] OTHER -> c
lower(s) == [i \in DOMAIN s |-> lower_char(s[i])]

\* s.rstrip("/")
rstrip_slash(s) ==
    LET kept == {k \in 0..Len(s) : k = 0 \/ s[k] # "/"}
        n == CHOOSE k \in kept : \A j \in kept : j <= k
    IN  SubSeq(s, 1, n)

endswith(s, suffix) ==
    Len(s) >= Len(suffix) /\ SubSeq(s, Len(s) - Len(suffix) + 1, Len(s)) = suffix

startswith(s, prefix) ==
    Len(s) >= Len(prefix) /\ SubSeq(s, 1, Len(prefix)) = prefix

\* s[:n]
first_chars(s, n) == SubSeq(s, 1, IF n < Len(s) THEN n ELSE Len(s))

\* AllowDomainMiddleware.normalize_origin: result[: len(":80")] is the first
\* three characters of result, result[: len(":443")] the first four
normalize_origin(http_origin) ==
    LET result == rstrip_slash(lower(http_origin)) IN
    IF endswith(result, Port80)
    THEN LET cut == first_chars(result, Len(Port80))
         IN  IF ~startswith(cut, HttpScheme) THEN HttpScheme \o cut ELSE cut
    ELSE IF endswith(result, Port443)
    THEN LET cut == first_chars(result, Len(Port443))
         IN  IF ~startswith(cut, HttpsScheme) THEN HttpsScheme \o cut ELSE cut
    ELSE result

HostChars ==
    {"-", ".", "a", "b", "c", "d", "e", "f", "h", "p", "s", "t",
     "0", "1", "2", "3", "4", "5", "6", "7", "8", "9"}
BracketChars == {":", ".", "a", "b", "c", "d", "e", "f",
                 "0", "1", "2", "3", "4", "5", "6", "7", "8", "9"}
DigitChars == {"0", "1", "2", "3", "4", "5", "6", "7", "8", "9"}

AllIn(s, chars) == \A i \in DOMAIN s : s[i] \in chars

\* ([-a-z0-9.]+|\[[:a-f0-9.]+\]) on the letters of the model
host_matches(s) ==
    \/ Len(s) >= 1 /\ AllIn(s, HostChars)
    \/ /\ Len(s) >= 3 /\ s[1] = "[" /\ s[Len(s)] = "]"
       /\ AllIn(SubSeq(s, 2, Len(s) - 1), BracketChars)

\* (:[0-9]+)?
port_matches(s) ==
    s = <<>> \/ (Len(s) >= 2 /\ s[1] = ":" /\ AllIn(Tail(s), DigitChars))

\* re.match(r"^https?://([-a-z0-9.]+|\[[:a-f0-9.]+\])(:[0-9]+)?$", s)
origin_re_match(s) ==
    \E scheme \in {HttpScheme, HttpsScheme} :
        /\ startswith(s, scheme)
        /\ LET rest == SubSeq(s, Len(scheme) + 1, Len(s)) IN
           \E k \in 1..Len(rest) :
               /\ host_matches(SubSeq(rest, 1, k))
               /\ port_matches(SubSeq(rest, k + 1, Len(rest)))

\* AllowDomainMiddleware.format_is_valid
format_is_valid(http_origin) ==
    IF endswith(http_origin, Port80) \/ endswith(http_origin, Port443)
    THEN FALSE
    ELSE origin_re_match(normalize_origin(http_origin))

\* AllowDomainMiddleware.is_allowed: True, or False and None, which are falsy
is_allowed(allowlist, http_origin0) ==
    LET http_origin == normalize_origin(http_origin0) IN
    IF http_origin = <<>> \/ ~format_is_valid(http_origin) THEN FALSE
    ELSE http_origin \in allowlist

\* AllowDomainMiddleware.process_request: the status of the rejection, or 200
\* when the request goes on to its handler
process_request(allowlist, method, header) ==
    IF method = "OPTIONS" THEN 200
    ELSE LET origin == normalize_origin(header) IN
         IF origin = <<>> THEN 200
         ELSE IF ~format_is_valid(origin) THEN 400
         ELSE IF ~is_allowed(allowlist, origin) THEN 403
         ELSE 200

\* AllowDomainMiddleware with an empty allowed_domains.txt, and no request yet
NoDomains ==
    [pos |-> "idle", allowlist |-> {}, file |-> {}, approved |-> {},
     method |-> "", origin |-> <<>>, status |-> 0]

InitDomains ==
    /\ enabled = {} /\ cupsPrinters = <<>> /\ usbDevices = <<>>
    /\ resp = NoResponse /\ pj = IdlePrint /\ job = None /\ now = 0 /\ hist = <<>>
    /\ pc = IdleConc /\ cups_lock = Unlocked /\ inLib = {} /\ cache = <<>>
    /\ cacheLock = Unlocked /\ tl = IdleConc /\ made = <<>>
    /\ dl = NoDomains

otherDomains == <<enabled, cupsPrinters, usbDevices, resp, pj, job, now, hist,
                  pc, cups_lock, inLib, cache, cacheLock, tl, made>>

\* DomainsSubmitApi.on_post with add_to_config_file: approved holds the
\* origin parameters of the approvals that were answered 200, and file the
\* lines of allowed_domains.txt, whose order is never read
SubmitDomain ==
    \E parameter \in OriginInputs :
        LET origin == normalize_origin(parameter) IN
        /\ dl' = IF origin = <<>> \/ ~format_is_valid(origin)
                 THEN [dl EXCEPT !.pos = "submitted", !.method = "POST",
                                 !.origin = parameter, !.status = 400]
                 ELSE [dl EXCEPT !.pos = "submitted", !.method = "POST",
                                 !.origin = parameter, !.status = 200,
                                 !.file = @ \cup {normalize_origin(origin)},
                                 !.allowlist = @ \cup {origin},
                                 !.approved = @ \cup {parameter}]
        /\ UNCHANGED otherDomains

\* A request of another route passes through the middleware
CheckOrigin ==
    \E method \in {"GET", "POST", "OPTIONS"}, header \in OriginInputs :
        /\ dl' = [dl EXCEPT !.pos = "checked", !.method = method, !.origin = header,
                            !.status = process_request(dl.allowlist, method, header)]
        /\ UNCHANGED otherDomains

\* The server starts again: AllowDomainMiddleware.__init__ reads the file
RestartServer ==
    /\ dl.pos # "idle"
    /\ dl' = [dl EXCEPT !.pos = "idle", !.method = "", !.origin = <<>>, !.status = 0,
                !.allowlist =
                    {normalize_origin(line) : line \in
                        {l \in dl.file : /\ normalize_origin(l) # <<>>
                                         /\ format_is_valid(normalize_origin(l))}}]
    /\ UNCHANGED otherDomains

NextDomains == SubmitDomain \/ CheckOrigin \/ RestartServer

SpecDomains == InitDomains /\ [][NextDomains]_vars

(***************************************************************************)
(* Claims checked under Spec                                               *)
(***************************************************************************)

\* The selector and the get_printers calls of the request just handled
Handled == resp.selector # <<>>
TheSelector == resp.selector[1]

\* C1: for a selector with print_system set, the printer resolved by on_post
\* and every printer listed by on_get has that print_system.
C1_PrintSystemRespected ==
    (Handled /\ TheSelector.print_system # None) =>
        /\ \A i \in 1..Len(resp.printer) :
               resp.printer[i].print_system = TheSelector.print_system
        /\ \A i \in 1..Len(resp.printers) :
               resp.printers[i].print_system = TheSelector.print_system

EmptySelector == PrinterSelector(NoneS, None, <<>>, <<>>)

\* The matching rule that C2 states, on the fields of a returned PrinterDetails
SelectorMatches(S, P) ==
    /\ ~Truthy(S.name) \/ Lower(P.name) = Lower(S.name)
    /\ StartsWith(Lower(P.name), Lower(S.name_prefix))
    /\ StartsWith(Lower(P.model), Lower(S.model_prefix))

\* C2: for both backends get_printers(S) returns exactly the available
\* printers (those the all-empty selector returns) whose name and model
\* match S.name, S.name_prefix and S.model_prefix case-insensitively.
C2_GetPrintersMatchesSelector ==
    Handled =>
        \A i \in 1..Len(resp.calls) :
            LET Matches(P) == SelectorMatches(TheSelector, P)
            IN  resp.calls[i].result =
                    FilterSeq(Matches, get_printers(resp.calls[i].system, EmptySelector))

Resolved == resp.op = "post" /\ resp.stage \in {"resolve", "print"}

\* C3: resolution visits the enabled backends in preference order (cups
\* before brother_ql), stops at the first backend whose get_printers is
\* non-empty and selects that backend's first printer; a brother_ql printer
\* is selected only if the cups backend returned none; at most one printer
\* is selected.
C3_FirstMatchInPreferenceOrder ==
    Resolved =>
        LET systems == supported_systems(enabled)
            calls == resp.calls
            n == Len(calls)
        IN  /\ n <= Len(systems)
            /\ \A i \in 1..n : calls[i].system = systems[i]
            /\ \A i \in 1..n : \A j \in 1..n :
                   (calls[i].system = "cups" /\ calls[j].system = "brother_ql") => i < j
            /\ \A i \in 1..(n - 1) : calls[i].result = <<>>
            /\ Len(resp.printer) <= 1
            /\ resp.printer = <<>> =>
                   /\ n = Len(systems)
                   /\ \A i \in 1..n : calls[i].result = <<>>
            /\ resp.printer # <<>> =>
                   /\ n >= 1
                   /\ calls[n].result # <<>>
                   /\ resp.printer[1] = calls[n].result[1]
                   /\ resp.print_system = calls[n].system
                   /\ resp.printer[1].print_system = "brother_ql" =>
                          \A system \in enabled :
                              system = "cups" => get_printers("cups", TheSelector) = <<>>

\* C3's case: the cups backend was asked, returned nothing, and a brother_ql
\* printer was selected
C3_Witness ==
    /\ Resolved
    /\ Len(resp.calls) = 2
    /\ resp.printer # <<>>
    /\ resp.print_system = "brother_ql"
    /\ cups_get_printers(cupsPrinters, EmptySelector) # <<>>

SelectorIsEmpty(S) ==
    ~Truthy(S.name) /\ S.print_system = None /\ S.name_prefix = <<>> /\ S.model_prefix = <<>>

\* C4: when on_post resolves no printer, the message is "No printer is
\* attached" for an empty selector and "No matching printer is attached"
\* for a selector with a non-empty field.
C4_NoPrinterMessage ==
    (Resolved /\ resp.printer = <<>>) =>
        /\ resp.status = 400
        /\ resp.title = IF SelectorIsEmpty(TheSelector)
                        THEN "No printer is attached"
                        ELSE "No matching printer is attached"

CountOf(x, s) == Cardinality({i \in 1..Len(s) : s[i] = x})

\* C5: every user-supplied option is either kept in the options sent to the
\* backend, exactly when its key is declared and its value is among the
\* declared choices, or dropped with exactly one warning of the form that
\* fits (undeclared key, or undeclared value of a declared key).
C5_SanitizationPartitions ==
    resp.printed =>
        LET printer == resp.printer[1]
            declared == printer.supported_options
            Declares(k) == \E j \in 1..Len(declared) : declared[j].keyword = k
            Allows(k, v) == \E j \in 1..Len(declared) :
                                declared[j].keyword = k /\ InSeq(v, declared[j].choices)
            ChoiceWarnings(k, v) ==
                {i \in 1..Len(resp.option_warnings) :
                    \E j \in 1..Len(declared) :
                        /\ declared[j].keyword = k
                        /\ resp.option_warnings[i] = WarnChoice(k, v, declared[j].choices)}
            OptionWarnings(k) == CountOf(WarnOption(k), resp.option_warnings)
        IN  /\ \A i \in 1..Len(resp.options) :
                   LET k == resp.options[i][1]
                       v == resp.options[i][2]
                       kept == InSeq(<<k, v>>, resp.print_options)
                   IN  /\ kept <=> Allows(k, v)
                       /\ kept => OptionWarnings(k) = 0 /\ ChoiceWarnings(k, v) = {}
                       /\ (~kept /\ ~Declares(k)) =>
                              OptionWarnings(k) = 1 /\ ChoiceWarnings(k, v) = {}
                       /\ (~kept /\ Declares(k)) =>
                              OptionWarnings(k) = 0 /\ Cardinality(ChoiceWarnings(k, v)) = 1
            /\ \A i \in 1..Len(resp.print_options) :
                   InSeq(resp.print_options[i], resp.options)
            /\ Len(resp.print_options) + Len(resp.option_warnings) = Len(resp.options)

\* C5's case: one option kept, one dropped for its key and, in another
\* request, one dropped for its value
C5_Witness ==
    /\ resp.printed
    /\ Len(resp.options) = 2
    /\ Len(resp.print_options) = 1
    /\ \E i \in 1..2 : resp.option_warnings = <<WarnOption(resp.options[i][1])>>

(***************************************************************************)
(* Claims checked under SpecPrint and SpecStuck                            *)
(***************************************************************************)

SyncCupsCall == pj.system = "cups" /\ ~pj.is_async

\* The reported state has gone PENDING, PROCESSING, COMPLETED and the job
\* completed in the span named
PlainlyCompleted(spans) == hist.plain /\ hist.completed \in spans

\* C6 as stated: a synchronous CupsPrintSystem.print on a job whose reported
\* state goes PENDING, PROCESSING, COMPLETED at any time within the 25
\* seconds of the wait budget returns a PrintJob with job_state COMPLETED.
C6_CompletedInBudgetIsReturned ==
    (SyncCupsCall /\ pj.pos = "returned" /\ PlainlyCompleted({"early", "in budget"}))
        => pj.job_state = COMPLETED

\* C6 amended: a synchronous CupsPrintSystem.print on a job whose reported
\* state goes PENDING, PROCESSING, COMPLETED no later than 24 seconds after
\* start_time, less the time a status fetch takes to return, returns a
\* PrintJob with job_state COMPLETED.
C6_CompletedBeforeLastPollIsReturned ==
    (SyncCupsCall /\ pj.pos = "returned" /\ PlainlyCompleted({"early"}))
        => pj.job_state = COMPLETED

C6_Witness ==
    /\ SyncCupsCall /\ pj.pos = "returned" /\ PlainlyCompleted({"early"})
    /\ pj.job_state = COMPLETED
    /\ now - pj.start_time >= MAX_WAIT_TIME - 3 * LATER_SLEEP
    /\ hist.slept >= 3

\* The polls of a loop that spends its whole budget: one at once, one after
\* the first sleep, and one after each later sleep that fits
PollsInBudget == 2 + (MAX_WAIT_TIME - FIRST_SLEEP) \div LATER_SLEEP

Over == pj.pos \in {"returned", "raised"}

\* C7: a synchronous CupsPrintSystem.print on a job that never leaves
\* PROCESSING terminates: the loop makes a bounded number of polls, sleeps
\* 0.1 s the first time and 1.0 s afterwards, starts no sleep that would end
\* after the 25 seconds of the budget, and returns the PrintJob it saw last,
\* in a non-terminal state, instead of raising an error.
C7_StuckJobReturnsWithinBudget ==
    /\ [](hist.polls <= PollsInBudget)
    /\ [](pj.pos = "sleeping" =>
            /\ pj.wake - pj.start_time <= MAX_WAIT_TIME
            /\ pj.sleep_timer = IF hist.slept = 1 THEN FIRST_SLEEP ELSE LATER_SLEEP)
    /\ []((pj.pos = "raised" /\ hist.polls > 0) => ~hist.plain)
    /\ [](pj.pos = "returned" =>
            /\ pj.job_state \in {PENDING, PROCESSING}
            /\ pj.job_state = pj.print_job[1])
    /\ <>Over

C7_Witness ==
    /\ pj.pos = "returned" /\ hist.plain
    /\ pj.job_state = PROCESSING
    /\ hist.polls = PollsInBudget
    /\ now - pj.start_time > MAX_WAIT_TIME - LATER_SLEEP

\* C8: with is_async true print returns without polling however fast the
\* job goes: CupsPrintSystem.print fetches the job status exactly once after
\* the submission, never sleeps and returns that state;
\* BrotherQLPrintSystem.print sends non-blocking and returns PENDING.
C8_AsyncReturnsWithoutPolling ==
    pj.is_async =>
        /\ hist.slept = 0 /\ hist.polls <= 1
        /\ pj.pos # "sleeping"
        /\ (pj.system = "cups" /\ pj.pos = "returned") =>
               /\ hist.polls = 1
               /\ hist.calls[Len(hist.calls)] = "getJobAttributes"
               /\ pj.job_state = pj.print_job[1]
        /\ (pj.system = "brother_ql" /\ pj.pos = "returned") =>
               /\ hist.calls = <<"send non-blocking">>
               /\ pj.job_state = PENDING

C8_Witness ==
    /\ pj.is_async /\ pj.system = "cups" /\ pj.pos = "returned"
    /\ pj.job_state = COMPLETED /\ hist.polls = 1


(***************************************************************************)
(* Claims checked under SpecConc                                           *)
(***************************************************************************)

\* C9: at any moment at most one worker thread is inside a call of the CUPS
\* client library (the construction of a connection, getPrinters,
\* getPrinterAttributes, getPPD, the parse of a PPD file and the walk
\* through its option groups, getJobAttributes, enablePrinter, printFiles),
\* and every such call is made by the thread that holds cups_lock.
C9_CupsCallsSerialized ==
    /\ Cardinality(inLib) <= 1
    /\ \A t \in inLib : cups_lock = t

\* C10: the list of enabled backends is computed once: each backend's
\* is_supported and constructor run at most once in the process, also when
\* worker threads make their first requests at the same time, and every
\* request is handed the same list of the same instances.
C10_SupportedSystemsComputedOnce ==
    /\ \A s \in Backends : made.probes[s] <= 1 /\ made.instances[s] <= 1
    /\ \A t, u \in Threads :
           (tl[t].systems # <<>> /\ tl[u].systems # <<>>) => tl[t].systems = tl[u].systems

(***************************************************************************)
(* Validation and rejection before backend I/O                             *)
(***************************************************************************)

\* C11 (Spec): within one submission handled by on_post, the validation of
\* the options and of the media-size request is over, with the request
\* accepted or rejected, before any backend I/O, the get_printers calls of
\* the resolution included: a request that validation rejects has made no
\* backend call.
C11_ValidationBeforeBackendIO ==
    (resp.op = "post" /\ resp.status = 400
        /\ resp.stage \in {"validate_options", "parse_media_size"})
        => resp.calls = <<>>

FileSupported(system, content_type) ==
    IF system = "cups" THEN cups_file_supported(content_type)
    ELSE brother_file_supported(content_type)

HasUnsupportedFile == \E i \in 1..Len(pj.files) : ~FileSupported(pj.system, pj.files[i])

FirstUnsupportedFile ==
    CHOOSE i \in 1..Len(pj.files) :
        /\ ~FileSupported(pj.system, pj.files[i])
        /\ \A j \in 1..(i - 1) : FileSupported(pj.system, pj.files[j])

ExpectedFile(file) ==
    IF file.has_url THEN Served(file.fileUrl) ELSE inline_file(file).file

\* One PrintFile per entry of the request, in the order of the request
OnePerEntryInOrder(print_files) ==
    /\ Len(print_files) = Len(dl.files)
    /\ \A i \in DOMAIN dl.files : print_files[i] = ExpectedFile(dl.files[i])

\* Some download or some inline file of the request has failed
SomeFileFailed ==
    \/ \E k \in DOMAIN dl.tasks :
           dl.tasks[k].done /\ dl.tasks[k].outcome # "ok"
    \/ \E i \in DOMAIN dl.files :
           ~dl.files[i].has_url /\ inline_file(dl.files[i]).kind # "ok"

\* C13 (as stated): the files handed to the backend are one PrintFile per
\* entry of the request in request order, parsing has waited for every
\* download it started before it returns, and no job is submitted when any
\* download or inline file failed.
C13_FilesReassembled ==
    /\ dl.pos \in {"returned", "printed"} =>
           /\ OnePerEntryInOrder(dl.downloaded_files)
           /\ \A k \in DOMAIN dl.tasks : dl.tasks[k].done
    /\ dl.pos = "printed" =>
           /\ OnePerEntryInOrder(dl.job_files)
           /\ ~SomeFileFailed

\* The part of C13 that the code keeps: order and no partial job, waiting
\* for the download each entry's file comes from
FilesInRequestOrder ==
    /\ dl.pos \in {"returned", "printed"} =>
           /\ OnePerEntryInOrder(dl.downloaded_files)
           /\ \A i \in DOMAIN dl.files :
                  dl.files[i].has_url =>
                      /\ dl.tasks[dl.futures[dl.files[i].fileUrl]].done
                      /\ dl.tasks[dl.futures[dl.files[i].fileUrl]].outcome = "ok"
    /\ dl.pos = "printed" => OnePerEntryInOrder(dl.job_files)
    /\ dl.pos = "raised" => dl.job_files = <<>>

(***************************************************************************)
(* Claims about media sizes, checked under Spec                            *)
(***************************************************************************)

\* A POST that has resolved a printer and so has called parse_media_size
MediaParsed == resp.op = "post" /\ resp.stage \in {"parse_media_size", "print"}

\* media[size] as the request carries it
RequestedMedia == resp.req[1].media

GivenNum(x) == x.t # "absent"
NotPositive(x) == x.t \in {"nan", "inf"} \/ (x.t = "num" /\ x.v <= 0)

\* Width, height and units are not given together, or a dimension is not a
\* finite number greater than 0
InvalidDimensions(media) ==
    \/ GivenNum(media.width) # GivenNum(media.height)
    \/ GivenNum(media.width) # (media.units # Absent)
    \/ NotPositive(media.width)
    \/ NotPositive(media.height)

\* C14: parse_media_size rejects every request whose width, height and
\* units are not given together or whose width or height is not a finite
\* number greater than 0, also a width or height of 0 given with no name and
\* no units; such a request is never treated as one without a media size.
C14_InvalidDimensionsRejected ==
    (MediaParsed /\ InvalidDimensions(RequestedMedia)) =>
        (resp.stage = "parse_media_size" /\ resp.status = 400)

(***************************************************************************)
(* Claims about media sizes, checked under SpecMedia                       *)
(***************************************************************************)

\* The declared size that the last call of parse_media_size named
DeclaredSize == dl.printers[dl.printer].media_sizes[dl.size]

\* The call gave the declared width, height and units
ExactRequest ==
    /\ dl.width = DeclaredSize.width /\ dl.height = DeclaredSize.height
    /\ dl.units = DeclaredSize.units.value

\* C15: requesting a declared media size of a printer of either backend by
\* its name with its declared width, height and units returns that size and
\* no warning; requesting it with a differing width, height or units returns
\* that size with exactly one mismatch warning and no error.
C15_MediaRoundTrip ==
    (dl.pos = "parsed" /\ dl.size # 0) =>
        /\ dl.result.kind = "ok"
        /\ dl.result.size = <<DeclaredSize>>
        /\ ExactRequest <=> dl.result.warning = None

\* The same on the printers whose declared sizes have distinct names and
\* SizeUnit units
DistinctSizeNames(printer) ==
    \A j, k \in DOMAIN printer.media_sizes :
        printer.media_sizes[j].name = printer.media_sizes[k].name => j = k

MediaRoundTripWellFormed ==
    (/\ dl.pos = "parsed" /\ dl.size # 0
     /\ DistinctSizeNames(dl.printers[dl.printer])
     /\ DeclaredSize.units.type = "SizeUnit") => 
        /\ dl.result.kind = "ok"
        /\ dl.result.size = <<DeclaredSize>>
        /\ ExactRequest <=> dl.result.warning = None

\* C18: every PrinterDetails that get_printers of either backend returns
\* has a default_media_size that is the name of one of its media_sizes,
\* whatever media-default and media-supported the spooler reports.
C18_DefaultMediaSizeDeclared ==
    \A p \in DOMAIN dl.printers :
        /\ dl.printers[p].default_media_size # <<>>
        /\ \E k \in DOMAIN dl.printers[p].media_sizes :
               dl.printers[p].media_sizes[k].name
                   = dl.printers[p].default_media_size[1]

\* The same for the printers of the cups backend alone
CupsDefaultMediaSizeDeclared ==
    \A p \in DOMAIN dl.printers :
        dl.printers[p].print_system = "cups" =>
            /\ dl.printers[p].default_media_size # <<>>
            /\ \E k \in DOMAIN dl.printers[p].media_sizes :
                   dl.printers[p].media_sizes[k].name
                       = dl.printers[p].default_media_size[1]

(***************************************************************************)
(* Claims about unsupported options, checked under Spec                    *)
(***************************************************************************)

\* C16: a request that passed validation and resolved a printer is never
\* rejected for an option the printer does not support: on_post calls the
\* backend's print with options that hold no key of DISALLOWED_OPTIONS and
\* only declared keys with declared choices, the test of the options at the
\* head of CupsPrintSystem.print passes, and the warnings go out with the
\* success response.
C16_UnsupportedOptionNeverRejects ==
    /\ (resp.op = "post" /\ resp.printer # <<>> /\ resp.status # 201)
           => resp.stage = "parse_media_size"
    /\ (resp.op = "post" /\ resp.stage = "print") =>
           LET declared == resp.printer[1].supported_options IN
           /\ resp.printed /\ resp.status = 201
           /\ \A i \in 1..Len(resp.print_options) :
                  /\ resp.print_options[i][1] \notin DISALLOWED_OPTIONS
                  /\ \E j \in 1..Len(declared) :
                         /\ declared[j].keyword = resp.print_options[i][1]
                         /\ InSeq(resp.print_options[i][2], declared[j].choices)
           /\ Len(resp.warnings) >= Len(resp.options) - Len(resp.print_options)

\* C16's case: a cups printer whose IPP attributes list media, a request
\* whose only option is media with a value the printer lists, printed with
\* the option dropped and one warning
C16_Witness ==
    /\ resp.op = "post" /\ resp.stage = "print" /\ resp.status = 201
    /\ resp.print_system = "cups"
    /\ resp.options = << <<"media", "na_letter_8.5x11in">> >>
    /\ resp.print_options = <<>>
    /\ resp.warnings = <<WarnOption("media")>>

(***************************************************************************)
(* Claims checked under SpecJob                                            *)
(***************************************************************************)

\* The job id is the decimal number of a job that the spooler holds
NamesSpoolerJob ==
    /\ dl.job_id # <<>>
    /\ int(dl.job_id).kind = "value"
    /\ int(dl.job_id).value \in dl.jobs.known

\* No enabled backend knows the job, and CUPS, where asked, has reported
\* not found
UnknownJob ==
    /\ ~("cups" \in enabled /\ NamesSpoolerJob)
    /\ \A k \in DOMAIN dl.answered : dl.answered[k] = IPP_NOT_FOUND

\* C17: a status request for a job id that no enabled backend knows never
\* raises inside a backend and is answered 404: the cups backend returns
\* absent for every id that is not a number without calling CUPS and for
\* every id CUPS reports as not found, the brother_ql backend returns absent
\* for every id, and on_get turns absent from all backends into not found.
C17_UnknownJobIsNotFound ==
    UnknownJob =>
        /\ dl.pos # "raised"
        /\ dl.pos = "done" => dl.status = 404
        /\ int(dl.job_id).kind # "value" => dl.calls = <<>>

\* The same for the job ids that str.isdigit() and int() agree on
UnknownAsciiJobIsNotFound ==
    (UnknownJob /\ (isdigit(dl.job_id) => int(dl.job_id).kind = "value")) =>
        /\ dl.pos # "raised"
        /\ dl.pos = "done" => dl.status = 404
        /\ int(dl.job_id).kind # "value" => dl.calls = <<>>

(***************************************************************************)
(* Claims about the printers returned, checked under Spec                  *)
(***************************************************************************)

\* C19: every PrintOption in the supported_options of every printer that
\* CupsPrintSystem.get_printers returns has at least one choice, whether
\* the option comes from the IPP attributes, from the PPD file (also a PPD
\* option with no choices and no default) or from the generic options.
C19_ChoicesNonEmpty ==
    \A p \in DOMAIN resp.printers :
        resp.printers[p].print_system = "cups" =>
            \A j \in DOMAIN resp.printers[p].supported_options :
                resp.printers[p].supported_options[j].choices # <<>>

\* The selector of a GET /printers request, as PrinterSelector.parse gets it
ListedSelector == resp.req[1].selector

\* C20: PrinterSelector.parse accepts a selector whose printSystem names a
\* registered backend and returns a selector with that print_system; it
\* rejects with a bad request exactly the selectors whose printSystem is set
\* to something else or that carry an unknown field.
C20_RegisteredPrintSystemAccepted ==
    resp.op = "list" =>
        /\ resp.status = 400 <=>
               \/ ListedSelector.unknown
               \/ ListedSelector.printSystem \notin {Absent} \cup Backends
        /\ (resp.status # 400 /\ ListedSelector.printSystem \in Backends) =>
               resp.selector[1].print_system = ListedSelector.printSystem

\* What the code does instead: every selector that carries printSystem is
\* rejected, like one with an unknown field
PrintSystemFieldRejected ==
    resp.op = "list" =>
        (resp.status = 400 <=>
            (ListedSelector.unknown \/ ListedSelector.printSystem # Absent))

(***************************************************************************)
(* Claims about option sanitization applied again, checked under Spec      *)
(***************************************************************************)

\* C21: option sanitization is idempotent: remove_unsupported_options on
\* the options that remove_unsupported_options has returned for the same
\* printer returns them unchanged, and get_warnings on them returns no
\* warning.
C21_SanitizationIdempotent ==
    resp.printed =>
        LET printer == resp.printer[1]
            sanitized == remove_unsupported_options(printer, resp.options)
        IN  /\ sanitized = resp.print_options
            /\ remove_unsupported_options(printer, sanitized) = sanitized
            /\ get_warnings(printer, sanitized) = <<>>

\* C21's case: a request with two options of which the first sanitization
\* keeps one and drops the other for its value
C21_Witness ==
    /\ resp.printed
    /\ Len(resp.options) = 2
    /\ Len(resp.print_options) = 1
    /\ \E i \in 1..2 :
           /\ resp.options[i][1] = "sides" /\ resp.options[i][2] = "x"
           /\ DictHas(supported_choices(resp.printer[1]), "sides")
           /\ ~InSeq(resp.options[i], resp.print_options)

(***************************************************************************)
(* Claims about the end of the polling loop, checked under SpecPrint       *)
(***************************************************************************)

\* C22: a synchronous CupsPrintSystem.print returns a job in PENDING or
\* PROCESSING only when, at that poll, the time waited plus the next sleep
\* exceeds the 25 seconds of the budget; after a poll that saw any other
\* state (PENDING_HELD, STOPPED, CANCELED, ABORTED, COMPLETED) it returns
\* without another sleep or poll.
C22_LoopEndsAtBudgetOrOtherState ==
    [][/\ (/\ SyncCupsCall /\ pj.pos = "check" /\ pj'.pos = "returned"
           /\ pj'.job_state \in {PENDING, PROCESSING})
              => (now - pj.start_time) + pj.sleep_timer > MAX_WAIT_TIME
       /\ (/\ SyncCupsCall /\ pj.pos = "check"
           /\ pj.print_job[1] \notin {PENDING, PROCESSING})
              => /\ pj'.pos \in {"check", "returned"}
                 /\ pj'.pos = "returned" => pj'.job_state = pj.print_job[1]
                 /\ hist'.polls = hist.polls /\ hist'.slept = hist.slept
       /\ (SyncCupsCall /\ pj.pos = "returned")
              => /\ pj'.pos = "returned"
                 /\ hist'.polls = hist.polls /\ hist'.slept = hist.slept]_vars

\* C22's case: the job is held after the loop has slept, and the next poll
\* ends the loop
C22_Witness ==
    /\ SyncCupsCall /\ pj.pos = "returned"
    /\ pj.job_state = PENDING_HELD
    /\ hist.slept >= 2
    /\ now - pj.start_time < MAX_WAIT_TIME - LATER_SLEEP

\* printFiles has been called this many times
Submissions == Cardinality({k \in DOMAIN hist.calls : hist.calls[k] = "printFiles"})

\* C23: when a poll after printFiles finds the job absent, because the
\* spooler has purged it, CupsPrintSystem.print raises a server-side error
\* and returns no PrintJob although the job was submitted, and it does not
\* call printFiles again.
C23_AbsentJobIsServerError ==
    [][/\ (pj.pos = "poll" /\ pj'.pos # "poll" /\ ~job.exists)
              => /\ pj'.pos = "raised" /\ pj'.status = 500
                 /\ pj'.outcome = "raise"
       /\ pj.pos = "raised" => pj'.pos = "raised"
       /\ Submissions = 1 => hist'.calls # Append(hist.calls, "printFiles")]_vars

\* C23's case: the job was submitted and polled, went through to COMPLETED,
\* was purged during a sleep, and the next poll raised
C23_Witness ==
    /\ pj.system = "cups" /\ pj.pos = "raised" /\ pj.status = 500
    /\ Submissions = 1
    /\ hist.polls >= 2 /\ hist.slept >= 1
    /\ ~job.exists /\ job.state = COMPLETED

(***************************************************************************)
(* The discipline of cups_lock                                             *)
(***************************************************************************)

\* The step the thread is at
AtStep(t) == Head(tl[t].todo)

\* The thread is in time.sleep between two polls
Sleeping(t) == Running(t) /\ tl[t].inCall /\ AtStep(t).kind = "sleep"

\* The thread is at a `with cups_lock` statement, not yet inside
AsksCupsLock(t) == Running(t) /\ ~tl[t].inCall /\ AtStep(t).locked

\* The thread is inside one call of the library made under cups_lock
InLockedCall(t) ==
    Running(t) /\ tl[t].inCall /\ AtStep(t).kind = "lib" /\ AtStep(t).locked

\* C24 (SpecConc): cups_lock is never held by a thread that sleeps between
\* polls and never asked for by the thread that holds it; whoever holds it is
\* inside exactly one call of the library and gives it back with its next
\* step, whether the call returns or raises; so a thread that waits for the
\* lock always has a holder that can go on, and requests do not deadlock.
C24_LockCoversOneCall ==
    /\ [](\A t \in Threads :
             /\ Sleeping(t) => cups_lock # t
             /\ AsksCupsLock(t) => cups_lock # t
             /\ cups_lock = t => InLockedCall(t)
             /\ (AsksCupsLock(t) /\ cups_lock # Unlocked)
                    => ENABLED (LeaveCups(cups_lock) \/ RaiseCups(cups_lock)))
    /\ [][\A t \in Threads :
             (cups_lock = t /\ tl'[t] # tl[t]) => cups_lock' = Unlocked]_vars
    /\ []((\E t \in Threads : pc[t] \notin {"idle", "done"}) => ENABLED NextConc)

\* A thread sleeps between two polls of its job while another thread is
\* inside a call of the library under cups_lock
C24_Witness ==
    \E t, u \in Threads :
        /\ Sleeping(t) /\ tl[t].request = "POST /print-job sync"
        /\ cups_lock = u /\ InLockedCall(u) /\ u # t

(***************************************************************************)
(* Validation of the URLs before the downloads                             *)
(***************************************************************************)

\* The entry is one the first loop of parse_json_request rejects: not a
\* dictionary, or a fileUrl that is not a string or not http/https
InvalidEntry(file) ==
    \/ file.type # "dict"
    \/ /\ file.has_url /\ file.fileUrl # EmptyUrl
       /\ (file.url_type # "str" \/ file.fileUrl.scheme \notin {"http", "https"})

SomeEntryInvalid == \E i \in DOMAIN dl.files : InvalidEntry(dl.files[i])

\* The downloads handed to the executor so far
DownloadsStarted == Len(dl.tasks)

\* A request with an invalid entry is rejected with 400 and no download is
\* ever started for it; downloads are started only for requests all of whose
\* entries have passed
UrlsValidatedBeforeDownloads ==
    /\ SomeEntryInvalid =>
           /\ DownloadsStarted = 0
           /\ dl.pos # "start" => (dl.pos = "raised" /\ dl.status = 400)
    /\ DownloadsStarted > 0 => ~SomeEntryInvalid

\* C25 (SpecFiles): no download is started before every entry of files has
\* passed the checks of type and scheme, a request with an entry that is not
\* a dictionary or with a fileUrl that is not an http/https string is
\* rejected with no download started, and each distinct URL is downloaded at
\* most once per request.
C25_ValidatedThenEachUrlOnce ==
    /\ UrlsValidatedBeforeDownloads
    /\ \A j, k \in DOMAIN dl.tasks : dl.tasks[j].url = dl.tasks[k].url => j = k

(***************************************************************************)
(* The paused printer                                                      *)
(***************************************************************************)

\* The places of a call in the order of the backend calls made
CallsOf(name) == {k \in DOMAIN hist.calls : hist.calls[k] = name}

\* C26 (SpecPrint): for a printer that is STOPPED with reason "paused",
\* CupsPrintSystem.print calls enablePrinter before printFiles; when
\* enablePrinter fails, printFiles is never called and print raises a bad
\* request (400) for IPP_NOT_AUTHORIZED and a server error (500) otherwise;
\* for a printer that is not paused enablePrinter is never called.
C26_EnableBeforePrintFiles ==
    pj.system = "cups" =>
        /\ ~pj.paused => CallsOf("enablePrinter") = {}
        /\ (pj.paused /\ CallsOf("printFiles") # {}) =>
               /\ hist.enable = "ok"
               /\ \A k \in CallsOf("printFiles") :
                      \E j \in CallsOf("enablePrinter") : j < k
        /\ hist.enable \notin {"none", "ok"} =>
               /\ CallsOf("printFiles") = {}
               /\ pj.pos = "raised"
               /\ pj.status = IF hist.enable = IPP_NOT_AUTHORIZED THEN 400 ELSE 500

\* The paused printer was enabled and the files were then submitted
C26_Witness ==
    /\ pj.system = "cups" /\ pj.paused /\ hist.enable = "ok"
    /\ Len(hist.calls) >= 2
    /\ hist.calls[1] = "enablePrinter" /\ hist.calls[2] = "printFiles"

(***************************************************************************)
(* Names that the printer does not declare                                 *)
(***************************************************************************)

\* The last call of parse_media_size named a size the printer does not declare
UndeclaredName == dl.pos = "parsed" /\ dl.size = 0

\* Width, height and units are given and valid
ValidDimensions ==
    /\ dl.width.t = "num" /\ dl.width.v > 0
    /\ dl.height.t = "num" /\ dl.height.v > 0
    /\ dl.units \in SizeUnitValues

\* What parse_media_size makes of an undeclared name: a custom size with
\* the name, width, height and units asked for and no warning when the
\* dimensions are given, and no size with one warning when they are not
TreatedAsCustom(no_dimensions) ==
    /\ ValidDimensions =>
           /\ dl.result.kind = "ok" /\ dl.result.warning = None
           /\ Len(dl.result.size) = 1
           /\ LET size == dl.result.size[1] IN
              /\ size.name = dl.name
              /\ size.width = dl.width /\ size.height = dl.height
              /\ size.units = SizeUnit(dl.units)
              /\ size.full_identifier =
                     "custom_" \o dl.name \o "_" \o FloatStr(dl.width) \o "x"
                     \o FloatStr(dl.height) \o ipp_units(size.units)
    /\ no_dimensions =>
           /\ dl.result.kind = "ok" /\ dl.result.size = <<>>
           /\ dl.result.warning # None

\* C27 as stated: a name that matches none of the printer's declared sizes
\* is treated as a custom size and never as an error: with valid width,
\* height and units a MediaSize of that name comes back with no warning,
\* with no width and height "unspecified" comes back with one warning.
C27_UndeclaredNameIsCustom ==
    UndeclaredName =>
        /\ TreatedAsCustom(dl.width = NoNum /\ dl.height = NoNum)
        /\ (ValidDimensions \/ (dl.width = NoNum /\ dl.height = NoNum))
               => dl.result.kind = "ok"

\* The name passes the checks parse_media_size makes of every name
ValidSizeName(name) ==
    /\ name # "" /\ LowerName(name) # "custom"
    /\ ~HasUnderscore(name) /\ Len(name) <= 255 /\ PrintableName(name)

\* C27 as the code has it: the same for a name that passes the checks of
\* names (no underscore, printable ASCII, at most 255 characters, not
\* "custom" in any letter case), where "no width and height" is no width,
\* no height and no units.
C27_ValidUndeclaredNameIsCustom ==
    (UndeclaredName /\ ValidSizeName(dl.name)) =>
        TreatedAsCustom(dl.width = NoNum /\ dl.height = NoNum /\ dl.units = None)

\* Both cases of an undeclared name have happened for the cups printer
C27_Witness ==
    /\ UndeclaredName /\ dl.name = "legal"
    /\ dl.printers[dl.printer].print_system = "cups"
    /\ dl.width = NoNum /\ dl.height = NoNum /\ dl.units = None
    /\ dl.result.size = <<>> /\ dl.result.warning # None

(***************************************************************************)
(* Requests without files                                                  *)
(***************************************************************************)

\* The request was rejected as a client input error
RejectedAsClientError == dl.pos = "raised" /\ dl.status = 400

\* A JSON request with an empty list of files is rejected with 400 and
\* reaches no backend
JsonWithoutFilesRejected ==
    (dl.content_type = "application/json" /\ dl.files = <<>> /\ dl.pos # "start")
        => RejectedAsClientError

\* C28 (SpecFiles): a backend's print is never called with an empty list of
\* files: a request without files, JSON or multipart/form-data, is rejected
\* as a client input error before anything is handed to a backend.
C28_PrintNeverGetsNoFiles ==
    /\ dl.pos = "printed" => dl.job_files # <<>>
    /\ (dl.files = <<>> /\ dl.pos # "start") => RejectedAsClientError

(***************************************************************************)
(* Size names of a cups printer                                            *)
(***************************************************************************)

\* C29 (SpecMedia): the media_sizes of every printer that
\* CupsPrintSystem.get_printers returns have pairwise distinct names: of
\* several identifiers of media-supported with the same size name only the
\* first is kept.
C29_CupsSizeNamesDistinct ==
    \A p \in DOMAIN dl.printers :
        dl.printers[p].print_system = "cups" => DistinctSizeNames(dl.printers[p])

(***************************************************************************)
(* Claims about the allowlist of origins, checked under SpecDomains        *)
(***************************************************************************)

\* The origin has its scheme's default port written out
DefaultPortExplicit(origin) ==
    LET result == rstrip_slash(lower(origin)) IN
    \/ startswith(result, HttpScheme) /\ endswith(result, Port80)
    \/ startswith(result, HttpsScheme) /\ endswith(result, Port443)

\* The origin without what does not tell origins apart: letter case,
\* trailing slashes and the default port of its scheme
Canonical(origin) ==
    LET result == rstrip_slash(lower(origin)) IN
    IF startswith(result, HttpScheme) /\ endswith(result, Port80)
    THEN SubSeq(result, 1, Len(result) - Len(Port80))
    ELSE IF startswith(result, HttpsScheme) /\ endswith(result, Port443)
    THEN SubSeq(result, 1, Len(result) - Len(Port443))
    ELSE result

\* The middleware has let a request with an Origin header go on to its handler
OriginAccepted ==
    /\ dl.pos = "checked" /\ dl.method # "OPTIONS"
    /\ dl.origin # <<>> /\ dl.status = 200

\* Some approved origin is the request's origin up to letter case, trailing
\* slashes and an explicit default port
OriginWasApproved ==
    \E approved \in dl.approved : Canonical(approved) = Canonical(dl.origin)

\* C30 (SpecDomains): after any sequence of approvals through
\* DomainsSubmitApi.on_post, AllowDomainMiddleware accepts only requests
\* whose Origin equals an approved origin up to letter case, trailing
\* slashes and an explicit default port; an Origin with another scheme, host
\* or port is rejected with 403, also when it carries an explicit :80 or :443.
C30_OnlyApprovedOriginsAccepted ==
    /\ OriginAccepted => OriginWasApproved
    /\ (/\ dl.pos = "checked" /\ dl.method # "OPTIONS" /\ dl.origin # <<>>
        /\ origin_re_match(Canonical(dl.origin)) /\ ~OriginWasApproved)
           => dl.status = 403

\* The same where no approved origin and no Origin header writes out a
\* default port
PlainOriginsOnlyWhenApproved ==
    (/\ dl.pos = "checked" /\ dl.method # "OPTIONS" /\ dl.origin # <<>>
     /\ ~DefaultPortExplicit(dl.origin)
     /\ \A approved \in dl.approved : ~DefaultPortExplicit(approved))
        => /\ dl.status = 200 => OriginWasApproved
           /\ (origin_re_match(Canonical(dl.origin)) /\ ~OriginWasApproved)
                  => dl.status = 403

====
